---- MODULE Spec2Model ----
(***************************************************************************)
(* A model of hatchling's BuilderConfig (backend/src/hatchling/builders/   *)
(* config.py): the lazily memoized build options, the include / exclude /  *)
(* artifact pattern specs, the hook table, the source map, and the build   *)
(* overlay installed by set_build_data.                                    *)
(*                                                                         *)
(* Strings that the code takes apart (paths, patterns, source prefixes)    *)
(* are sequences of atoms: "src/pkg/mod.py" is                             *)
(* <<"src", "/", "pkg", "/", "mod", ".py">>.  The atoms are prefix-free,   *)
(* so prefix tests, first-occurrence replacement and lexicographic order   *)
(* on atom sequences agree with the same operations on the characters.     *)
(* Strings the code only passes around (option keys, hook names,           *)
(* environment variables) are TLA+ strings.                                *)
(*                                                                         *)
(* Python values are tagged records [type, val]; None is <<>> and a        *)
(* present value v is <<v>>.  The backquote of the error messages is       *)
(* written as an apostrophe.                                               *)
(***************************************************************************)
EXTENDS Integers, Sequences, FiniteSets, TLC

VARIABLES
    target_config,   \* BuilderConfig.__target_config: option key -> value
    build_config,    \* BuilderConfig.__build_config:  option key -> value
    gitignore,       \* the project's .gitignore: None, or <<lines>>
    environ,         \* os.environ: variable name -> value
    self,            \* the BuilderConfig instance's memo and overlay fields
    scopes,          \* the open set_build_data generator frames
    held,            \* the mapping the caller last got from get_force_include
    last             \* the last call made on the object and its outcome

vars == <<target_config, build_config, gitignore, environ, self, scopes, held, last>>

----------------------------------------------------------------------------
(* Bounds of the model *)

\* how many set_build_data scopes may be open at once
MaxScopes == 2

----------------------------------------------------------------------------
(* Python values *)

None == <<>>
Some(v) == <<v>>
IsNone(x) == Len(x) = 0

Str(s) == [type |-> "str", val |-> s]
Bool(b) == [type |-> "bool", val |-> b]
List(l) == [type |-> "list", val |-> l]
Dict(d) == [type |-> "dict", val |-> d]
Number(n) == [type |-> "int", val |-> n]

\* isinstance(v, t)
isinstance(v, t) == v.type = t

\* bool(v): Python truthiness
Truthy(v) ==
    CASE v.type = "bool" -> v.val
      [] v.type = "int" -> v.val # 0
      [] OTHER -> Len(v.val) > 0

\* a dict is a sequence of <<key, value>> pairs in insertion order
Keys(d) == {d[i][1] : i \in 1..Len(d)}
HasKey(d, k) == \E i \in 1..Len(d) : d[i][1] = k
Lookup(d, k) == d[CHOOSE i \in 1..Len(d) : d[i][1] = k][2]

\* dict.get(key, default) on a config table (a function on its keys)
Get(table, key, default) == IF key \in DOMAIN table THEN table[key] ELSE default

Ret(v) == [kind |-> "return", val |-> v]
Raise(exc, msg) == [kind |-> "raise", val |-> <<exc, msg>>]
Raised(r) == r.out.kind = "raise"
SameOutcome(a, b) == a.kind = b.kind /\ a.val = b.val

----------------------------------------------------------------------------
(* Strings as atom sequences *)

\* the atoms in code-point order of their first differing character
AtomOrder ==
    <<"\n", "!", "#", "*", ".git", ".py", "/", "[cod]", "__pycache__",
      "bogus", "build", "c", "dist", "editable", "gen", "lib", "mod", "numpy",
      "out", "pkg", "proj", "src", "standard", "tool">>

Rank(a) == CHOOSE i \in 1..Len(AtomOrder) : AtomOrder[i] = a

\* s < t for Python strings
RECURSIVE StrLess(_, _)
StrLess(s, t) ==
    IF t = <<>> THEN FALSE
    ELSE IF s = <<>> THEN TRUE
    ELSE IF Head(s) = Head(t) THEN StrLess(Tail(s), Tail(t))
    ELSE Rank(Head(s)) < Rank(Head(t))

\* s.startswith(p)
StartsWith(s, p) == Len(p) <= Len(s) /\ SubSeq(s, 1, Len(p)) = p

\* s.find(old): the first index at which old occurs in s, 0 when it does not
Find(s, old) ==
    LET hits == {i \in 1..(Len(s) + 1) :
                    i + Len(old) - 1 <= Len(s) /\ SubSeq(s, i, i + Len(old) - 1) = old}
    IN IF hits = {} THEN 0 ELSE CHOOSE i \in hits : \A j \in hits : i <= j

\* s.replace(old, new, 1)
Replace1(s, old, new) ==
    LET i == Find(s, old)
    IN IF i = 0 THEN s
       ELSE SubSeq(s, 1, i - 1) \o new \o SubSeq(s, i + Len(old), Len(s))

\* s.strip(chars) for a single separator atom
RECURSIVE LStrip(_, _)
LStrip(s, a) == IF s # <<>> /\ Head(s) = a THEN LStrip(Tail(s), a) ELSE s
RECURSIVE RStrip(_, _)
RStrip(s, a) ==
    IF s # <<>> /\ s[Len(s)] = a THEN RStrip(SubSeq(s, 1, Len(s) - 1), a) ELSE s
Strip(s, a) == RStrip(LStrip(s, a), a)

\* s.split("/")
RECURSIVE Split(_)
Split(s) ==
    LET i == Find(s, <<"/">>)
    IN IF i = 0 THEN <<s>>
       ELSE <<SubSeq(s, 1, i - 1)>> \o Split(SubSeq(s, i + 1, Len(s)))

os_path_sep == <<"/">>

----------------------------------------------------------------------------
(* pathspec: GitWildMatchPattern and PathSpec.match_file *)

\* one path segment against one pattern segment: "*" is any run of atoms,
\* "[cod]" one of the atoms c, o, d, anything else is itself
RECURSIVE GlobSeg(_, _)
GlobSeg(g, s) ==
    IF g = <<>> THEN s = <<>>
    ELSE IF Head(g) = "*"
         THEN GlobSeg(Tail(g), s) \/ (s # <<>> /\ GlobSeg(g, Tail(s)))
    ELSE IF s = <<>> THEN FALSE
    ELSE IF Head(g) = "[cod]"
         THEN Head(s) \in {"c", "o", "d"} /\ GlobSeg(Tail(g), Tail(s))
    ELSE Head(g) = Head(s) /\ GlobSeg(Tail(g), Tail(s))

\* the pattern with surrounding whitespace (the line's newline) removed
PatternText(line) == Strip(line, "\n")

\* GitWildMatchPattern.include: None for a blank line or a comment
PatternIsNull(line) ==
    LET t == PatternText(line) IN t = <<>> \/ Head(t) = "#"

PatternInclude(line) == Head(PatternText(line)) # "!"

\* GitWildMatchPattern.match for one file path.  A leading "/" anchors the
\* pattern at the root, and so does a "/" inside it; a pattern of a single
\* segment matches at any depth.  A trailing "/" matches only what lies
\* below the named directory; without it the pattern matches the named
\* file or anything below the named directory.
PatternMatches(line, path) ==
    LET t0 == PatternText(line)
        t == IF Head(t0) = "!" THEN Tail(t0) ELSE t0
        segs0 == Split(t)
        rooted == segs0[1] = <<>>
        segs1 == IF rooted THEN Tail(segs0) ELSE segs0
        anyDepth == ~rooted /\ (Len(segs0) = 1 \/ (Len(segs0) = 2 /\ segs0[2] = <<>>))
        dirOnly == Len(segs1) > 1 /\ segs1[Len(segs1)] = <<>>
        body == IF dirOnly THEN SubSeq(segs1, 1, Len(segs1) - 1) ELSE segs1
        p == Split(path)
        k == Len(body)
        starts == IF anyDepth THEN 0..Len(p) ELSE {0}
    IN k > 0 /\
       \E i \in starts :
          /\ IF dirOnly THEN i + k < Len(p) ELSE i + k <= Len(p)
          /\ \A j \in 1..k : GlobSeg(body[j], p[i + j])

\* PathSpec.match_file: the last pattern that matches decides
RECURSIVE MatchFrom(_, _, _)
MatchFrom(patterns, path, matched) ==
    IF patterns = <<>> THEN matched
    ELSE MatchFrom(Tail(patterns), path,
                   IF ~PatternIsNull(Head(patterns)) /\ PatternMatches(Head(patterns), path)
                   THEN PatternInclude(Head(patterns))
                   ELSE matched)

match_file(spec, path) == MatchFrom(spec, path, FALSE)

\* PathSpec.from_lines: a spec is the list of lines it was compiled from
from_lines(lines) == lines

----------------------------------------------------------------------------
(* The collaborators of BuilderConfig *)

\* BuilderConfig.__plugin_name: the build target the object configures
plugin_name == "wheel"

\* BuilderConfig.__root as a path
root == <<"/", "proj">>

\* hatchling.builders.utils.normalize_relative_path:
\* os.path.normpath(path).strip(os.path.sep)
normalize_relative_path(path) == Strip(path, "/")

\* hatchling.builders.utils.normalize_relative_directory
normalize_relative_directory(path) == normalize_relative_path(path) \o os_path_sep

\* os.path.isabs
isabs(path) == path # <<>> /\ Head(path) = "/"

\* hatchling.builders.utils.normalize_inclusion_map: sources made absolute
\* under the root, destinations normalized.  The map is a function from
\* source to destination.
normalize_inclusion_map(inclusion_map, r) ==
    LET src(i) == IF isabs(inclusion_map[i][1]) THEN RStrip(inclusion_map[i][1], "/")
                  ELSE r \o os_path_sep \o normalize_relative_path(inclusion_map[i][1])
        last_of(k) == CHOOSE i \in 1..Len(inclusion_map) :
                         src(i) = k /\ \A j \in 1..Len(inclusion_map) : src(j) = k => j <= i
    IN [k \in {src(i) : i \in 1..Len(inclusion_map)} |->
           normalize_relative_path(inclusion_map[last_of(k)][2])]

\* a sequence of strings in ascending order (sorted())
RECURSIVE Insert(_, _)
Insert(sorted, x) ==
    IF sorted = <<>> THEN <<x>>
    ELSE IF StrLess(x, Head(sorted)) THEN <<x>> \o sorted
    ELSE <<Head(sorted)>> \o Insert(Tail(sorted), x)
RECURSIVE Sorted(_)
Sorted(seq) == IF seq = <<>> THEN <<>> ELSE Insert(Sorted(SubSeq(seq, 1, Len(seq) - 1)), seq[Len(seq)])

----------------------------------------------------------------------------
(* BuilderConfig.__init__ *)

NewConfig ==
    [ __hook_config |-> None, __versions |-> None, __dependencies |-> None,
      __sources |-> None, __packages |-> None, __force_include |-> None,
      __include_spec |-> None, __exclude_spec |-> None, __artifact_spec |-> None,
      __include_patterns |-> None, __exclude_patterns |-> None,
      __artifact_patterns |-> None,
      build_artifact_spec |-> None, build_force_include |-> <<>>,
      __directory |-> None, __ignore_vcs |-> None, __only_packages |-> None,
      __reproducible |-> None, __dev_mode_dirs |-> None, __dev_mode_exact |-> None,
      __require_runtime_dependencies |-> None ]

\* the outcome of a call: the object afterwards, and what was returned or raised
Returns(s, v) == [self |-> s, out |-> Ret(v)]
Raises(s, exc, msg) == [self |-> s, out |-> Raise(exc, msg)]

\* a local variable: K on the value v
Let(v, K(_)) == K(v)

\* a call inside a method: its exception propagates, else K on its outcome
Try(r, K(_)) == IF Raised(r) THEN r ELSE K(r)

TargetLocation(key) == "tool.hatch.build.targets." \o plugin_name \o "." \o key
GlobalLocation(key) == "tool.hatch.build." \o key

\* where an option is read: the target table when it has the key
OptionConfig(key) == IF key \in DOMAIN target_config THEN target_config ELSE build_config
OptionLocation(key) ==
    IF key \in DOMAIN target_config THEN TargetLocation(key) ELSE GlobalLocation(key)

\* the loop over a list of strings that rejects the first element that is
\* not a string or is empty: None, or the exception raised
FirstInvalid(items, noun, location) ==
    LET bad == {i \in 1..Len(items) : ~isinstance(items[i], "str") \/ items[i].val = <<>>}
    IN IF bad = {} THEN None
       ELSE LET i == CHOOSE j \in bad : \A k \in bad : j <= k
            IN IF ~isinstance(items[i], "str")
               THEN Some(Raise("TypeError",
                        noun \o " #" \o ToString(i) \o " in field '" \o location
                             \o "' must be a string"))
               ELSE Some(Raise("ValueError",
                        noun \o " #" \o ToString(i) \o " in field '" \o location
                             \o "' cannot be an empty string"))

Values(items) == [i \in 1..Len(items) |-> items[i].val]

default_include == List(<<>>)
default_exclude == List(<<>>)
default_packages == List(<<>>)
default_global_exclude == << <<".git">>, <<"__pycache__">>, <<"*", ".py", "[cod]">> >>

----------------------------------------------------------------------------
(* Boolean options *)

\* the lookup with the global table asked first
BoolOptionGlobalFirst(s, field, key, default) ==
    IF ~IsNone(s[field]) THEN Returns(s, s[field][1])
    ELSE IF key \in DOMAIN build_config
    THEN IF ~isinstance(build_config[key], "bool")
         THEN Raises(s, "TypeError", "Field '" \o GlobalLocation(key) \o "' must be a boolean")
         ELSE Returns([s EXCEPT ![field] = Some(build_config[key].val)], build_config[key].val)
    ELSE Let(Get(target_config, key, Bool(default)), LAMBDA v :
         IF ~isinstance(v, "bool")
         THEN Raises(s, "TypeError", "Field '" \o TargetLocation(key) \o "' must be a boolean")
         ELSE Returns([s EXCEPT ![field] = Some(v.val)], v.val))

\* the body shared by ignore_vcs, require_runtime_dependencies,
\* only_packages, reproducible and dev_mode_exact
BoolOption(s, field, key, default) ==
    IF ~IsNone(s[field]) THEN Returns(s, s[field][1])
    ELSE IF key \in DOMAIN target_config
    THEN IF ~isinstance(target_config[key], "bool")
         THEN Raises(s, "TypeError", "Field '" \o TargetLocation(key) \o "' must be a boolean")
         ELSE Returns([s EXCEPT ![field] = Some(target_config[key].val)], target_config[key].val)
    ELSE Let(Get(build_config, key, Bool(default)), LAMBDA v :
         IF ~isinstance(v, "bool")
         THEN Raises(s, "TypeError", "Field '" \o GlobalLocation(key) \o "' must be a boolean")
         ELSE Returns([s EXCEPT ![field] = Some(v.val)], v.val))

ignore_vcs(s) == BoolOption(s, "__ignore_vcs", "ignore-vcs", FALSE)

require_runtime_dependencies(s) ==
    BoolOption(s, "__require_runtime_dependencies", "require-runtime-dependencies", FALSE)

only_packages(s) == BoolOption(s, "__only_packages", "only-packages", FALSE)

reproducible(s) == BoolOption(s, "__reproducible", "reproducible", TRUE)

dev_mode_exact(s) == BoolOption(s, "__dev_mode_exact", "dev-mode-exact", FALSE)

----------------------------------------------------------------------------
(* packages and the three pattern specs *)

\* the type check and the element loop of a list-of-strings option: the
\* exception they raise, or the continuation on the validated list
StringList(s, key, default, noun, K(_)) ==
    Let(Get(OptionConfig(key), key, default), LAMBDA v :
    IF ~isinstance(v, "list")
    THEN Raises(s, "TypeError",
                "Field '" \o OptionLocation(key) \o "' must be an array of strings")
    ELSE Let(FirstInvalid(v.val, noun, OptionLocation(key)), LAMBDA bad :
         IF ~IsNone(bad) THEN [self |-> s, out |-> bad[1]] ELSE K(Values(v.val))))

packages(s) ==
    IF ~IsNone(s.__packages) THEN Returns(s, s.__packages[1])
    ELSE StringList(s, "packages", default_packages, "Package", LAMBDA pkgs :
         Let(Sorted([i \in 1..Len(pkgs) |-> normalize_relative_path(pkgs[i])]), LAMBDA v :
         Returns([s EXCEPT !.__packages = Some(v)], v)))

\* file.readlines() of the located .gitignore, [] when there is none
load_vcs_ignore_patterns == IF IsNone(gitignore) THEN <<>> ELSE gitignore[1]

\* the compiled spec of a pattern list, None when the list is empty
Compile(patterns) == IF patterns # <<>> THEN Some(from_lines(patterns)) ELSE None

\* include_spec keeping, when an element is invalid, the patterns gathered
\* before it
include_spec_partial(s) ==
    IF ~IsNone(s.__include_patterns) THEN Returns(s, s.__include_spec)
    ELSE Let(Get(OptionConfig("include"), "include", default_include), LAMBDA v :
    IF ~isinstance(v, "list")
    THEN Raises(s, "TypeError",
                "Field '" \o OptionLocation("include") \o "' must be an array of strings")
    ELSE Let(FirstInvalid(v.val, "Pattern", OptionLocation("include")), LAMBDA bad :
    IF ~IsNone(bad)
    THEN [self |-> [s EXCEPT !.__include_patterns = Some(<<>>)], out |-> bad[1]]
    ELSE Try(packages(s), LAMBDA p :
         Let(Values(v.val) \o
             [i \in 1..Len(p.out.val) |-> <<"/">> \o p.out.val[i] \o <<"/">>],
             LAMBDA all_include_patterns :
         Returns([p.self EXCEPT !.__include_spec = Compile(all_include_patterns),
                                !.__include_patterns = Some(all_include_patterns)],
                 Compile(all_include_patterns))))))

\* include_spec computing again whenever the stored spec is None
include_spec_while_absent(s) ==
    IF ~IsNone(s.__include_spec) THEN Returns(s, s.__include_spec)
    ELSE StringList(s, "include", default_include, "Pattern", LAMBDA include_patterns :
         Try(packages(s), LAMBDA p :
         Let(include_patterns \o
             [i \in 1..Len(p.out.val) |-> <<"/">> \o p.out.val[i] \o <<"/">>],
             LAMBDA all_include_patterns :
         Returns([p.self EXCEPT !.__include_spec = Compile(all_include_patterns),
                                !.__include_patterns = Some(all_include_patterns)],
                 Compile(all_include_patterns)))))

include_spec(s) ==
    IF ~IsNone(s.__include_patterns) THEN Returns(s, s.__include_spec)
    ELSE StringList(s, "include", default_include, "Pattern", LAMBDA include_patterns :
         Try(packages(s), LAMBDA p :
         Let(include_patterns \o
             [i \in 1..Len(p.out.val) |-> <<"/">> \o p.out.val[i] \o <<"/">>],
             LAMBDA all_include_patterns :
         Returns([p.self EXCEPT !.__include_spec = Compile(all_include_patterns),
                                !.__include_patterns = Some(all_include_patterns)],
                 Compile(all_include_patterns)))))

\* exclude_spec reading the ignore file whatever ignore_vcs says
exclude_spec_always_vcs(s) ==
    IF ~IsNone(s.__exclude_patterns) THEN Returns(s, s.__exclude_spec)
    ELSE StringList(s, "exclude", default_exclude, "Pattern", LAMBDA exclude_patterns :
         Try(ignore_vcs(s), LAMBDA v :
         Let(default_global_exclude \o exclude_patterns \o load_vcs_ignore_patterns,
             LAMBDA all_exclude_patterns :
         Returns([v.self EXCEPT !.__exclude_spec = Compile(all_exclude_patterns),
                                !.__exclude_patterns = Some(all_exclude_patterns)],
                 Compile(all_exclude_patterns)))))

exclude_spec(s) ==
    IF ~IsNone(s.__exclude_patterns) THEN Returns(s, s.__exclude_spec)
    ELSE StringList(s, "exclude", default_exclude, "Pattern", LAMBDA exclude_patterns :
         Try(ignore_vcs(s), LAMBDA v :
         Let(default_global_exclude \o exclude_patterns \o
             (IF ~v.out.val THEN load_vcs_ignore_patterns ELSE <<>>),
             LAMBDA all_exclude_patterns :
         Returns([v.self EXCEPT !.__exclude_spec = Compile(all_exclude_patterns),
                                !.__exclude_patterns = Some(all_exclude_patterns)],
                 Compile(all_exclude_patterns)))))

artifact_spec(s) ==
    IF ~IsNone(s.__artifact_patterns) THEN Returns(s, s.__artifact_spec)
    ELSE StringList(s, "artifacts", List(<<>>), "Pattern", LAMBDA all_artifact_patterns :
         Returns([s EXCEPT !.__artifact_spec = Compile(all_artifact_patterns),
                           !.__artifact_patterns = Some(all_artifact_patterns)],
                 Compile(all_artifact_patterns)))

----------------------------------------------------------------------------
(* The inclusion decision *)

path_is_included(s, relative_path) ==
    Try(include_spec(s), LAMBDA r :
    IF IsNone(r.out.val) THEN Returns(r.self, TRUE)
    ELSE Returns(r.self, match_file(r.out.val[1], relative_path)))

path_is_excluded(s, relative_path) ==
    Try(exclude_spec(s), LAMBDA r :
    IF IsNone(r.out.val) THEN Returns(r.self, FALSE)
    ELSE Returns(r.self, match_file(r.out.val[1], relative_path)))

path_is_artifact(s, relative_path) ==
    Try(artifact_spec(s), LAMBDA r :
    IF IsNone(r.out.val) THEN Returns(r.self, FALSE)
    ELSE Returns(r.self, match_file(r.out.val[1], relative_path)))

path_is_build_artifact(s, relative_path) ==
    IF IsNone(s.build_artifact_spec) THEN Returns(s, FALSE)
    ELSE Returns(s, match_file(s.build_artifact_spec[1], relative_path))

\* include_path with the only-packages test ahead of the static artifact test
include_path_packages_first(s, relative_path, is_package) ==
    Let(path_is_build_artifact(s, relative_path), LAMBDA a :
    IF a.out.val THEN a
    ELSE Try(only_packages(a.self), LAMBDA c :
    IF c.out.val /\ ~is_package THEN Returns(c.self, FALSE)
    ELSE Try(path_is_artifact(c.self, relative_path), LAMBDA b :
    IF b.out.val THEN b
    ELSE Try(path_is_included(b.self, relative_path), LAMBDA d :
    IF ~d.out.val THEN d
    ELSE Try(path_is_excluded(d.self, relative_path), LAMBDA e :
    Returns(e.self, ~e.out.val))))))

\* include_path with the exclude spec applied to artifacts as well
include_path_excluded_artifacts(s, relative_path, is_package) ==
    Try(path_is_excluded(s, relative_path), LAMBDA e :
    Let(path_is_build_artifact(e.self, relative_path), LAMBDA a :
    Try(path_is_artifact(a.self, relative_path), LAMBDA b :
    IF a.out.val \/ b.out.val THEN Returns(b.self, ~e.out.val)
    ELSE Try(only_packages(b.self), LAMBDA c :
    IF c.out.val /\ ~is_package THEN Returns(c.self, FALSE)
    ELSE Try(path_is_included(c.self, relative_path), LAMBDA d :
    Returns(d.self, d.out.val /\ ~e.out.val))))))

\* include_path without the only-packages test
include_path_any_file(s, relative_path, is_package) ==
    Let(path_is_build_artifact(s, relative_path), LAMBDA a :
    IF a.out.val THEN a
    ELSE Try(path_is_artifact(a.self, relative_path), LAMBDA b :
    IF b.out.val THEN b
    ELSE Try(only_packages(b.self), LAMBDA c :
    Try(path_is_included(c.self, relative_path), LAMBDA d :
    IF ~d.out.val THEN d
    ELSE Try(path_is_excluded(d.self, relative_path), LAMBDA e :
    Returns(e.self, ~e.out.val))))))

\* a or b or (not (only_packages and not is_package) and (included and not excluded)),
\* each operand evaluated only when the ones before it did not decide
include_path(s, relative_path, is_package) ==
    Let(path_is_build_artifact(s, relative_path), LAMBDA a :
    IF a.out.val THEN a
    ELSE Try(path_is_artifact(a.self, relative_path), LAMBDA b :
    IF b.out.val THEN b
    ELSE Try(only_packages(b.self), LAMBDA c :
    IF c.out.val /\ ~is_package THEN Returns(c.self, FALSE)
    ELSE Try(path_is_included(c.self, relative_path), LAMBDA d :
    IF ~d.out.val THEN d
    ELSE Try(path_is_excluded(d.self, relative_path), LAMBDA e :
    Returns(e.self, ~e.out.val))))))

----------------------------------------------------------------------------
(* force-include and the build overlay *)

force_include(s) ==
    IF ~IsNone(s.__force_include) THEN Returns(s, s.__force_include[1])
    ELSE Let(Get(OptionConfig("force-include"), "force-include", Dict(<<>>)), LAMBDA fi :
    IF ~isinstance(fi, "dict")
    THEN Raises(s, "TypeError",
                "Field '" \o OptionLocation("force-include") \o "' must be a mapping")
    ELSE Let({i \in 1..Len(fi.val) :
                 \/ fi.val[i][1] = <<>>
                 \/ ~isinstance(fi.val[i][2], "str")
                 \/ fi.val[i][2].val = <<>>}, LAMBDA bad :
    IF bad # {}
    THEN Let(CHOOSE j \in bad : \A k \in bad : j <= k, LAMBDA i :
         IF fi.val[i][1] = <<>>
         THEN Raises(s, "ValueError",
                  <<"Source #", i, " in field '", OptionLocation("force-include"),
                    "' cannot be an empty string">>)
         ELSE IF ~isinstance(fi.val[i][2], "str")
         THEN Raises(s, "TypeError",
                  <<"Path for source '", fi.val[i][1], "' in field '",
                    OptionLocation("force-include"), "' must be a string">>)
         ELSE Raises(s, "ValueError",
                  <<"Path for source '", fi.val[i][1], "' in field '",
                    OptionLocation("force-include"), "' cannot be an empty string">>))
    ELSE Let(normalize_inclusion_map(
                 [i \in 1..Len(fi.val) |-> <<fi.val[i][1], fi.val[i][2].val>>], root),
             LAMBDA v :
         Returns([s EXCEPT !.__force_include = Some(v)], v))))

\* the dict object get_force_include hands out were it the fragment itself
get_force_include_object_fragment == "fragment"

\* the dict object get_force_include hands out: self.force_include.copy(),
\* a new dict, neither the memoized map ("static") nor the fragment
get_force_include_object == "copy"

\* what a dict object holds: a copy holds what was put in it, the memoized
\* map and the fragment hold what the object's fields hold
Contents(s, mapping) ==
    CASE mapping.object = "copy" -> mapping.contents
      [] mapping.object = "static" -> s.__force_include[1]
      [] mapping.object = "fragment" -> s.build_force_include

\* force_include.copy() updated with build_force_include
get_force_include(s) ==
    Try(force_include(s), LAMBDA r :
    Returns(r.self, r.self.build_force_include @@ r.out.val))

\* a finally block that resets the artifact spec and leaves the fragment
set_build_data_finally_spec_only(s) == [s EXCEPT !.build_artifact_spec = None]

\* a finally block that empties the fragment and leaves the artifact spec
set_build_data_finally_fragment_only(s) == [s EXCEPT !.build_force_include = <<>>]

\* the finally block of set_build_data
set_build_data_finally(s) ==
    [s EXCEPT !.build_artifact_spec = None, !.build_force_include = <<>>]

\* set_build_data up to its yield were the fragment assigned, not updated
set_build_data_enter_assigning(s, build_data) ==
    IF "artifacts" \notin DOMAIN build_data
    THEN Raises(set_build_data_finally(s), "KeyError", "artifacts")
    ELSE Let([s EXCEPT !.build_artifact_spec =
                  IF build_data["artifacts"] # <<>>
                  THEN Some(from_lines(build_data["artifacts"])) ELSE None],
             LAMBDA s1 :
         IF "force-include" \notin DOMAIN build_data
         THEN Raises(set_build_data_finally(s1), "KeyError", "force-include")
         ELSE Returns([s1 EXCEPT !.build_force_include =
                                    normalize_inclusion_map(build_data["force-include"], root)],
                      None))

\* set_build_data up to its yield; when a key of build_data is missing the
\* KeyError leaves through the finally block
set_build_data_enter(s, build_data) ==
    IF "artifacts" \notin DOMAIN build_data
    THEN Raises(set_build_data_finally(s), "KeyError", "artifacts")
    ELSE Let(IF build_data["artifacts"] # <<>>
             THEN [s EXCEPT !.build_artifact_spec = Some(from_lines(build_data["artifacts"]))]
             ELSE s, LAMBDA s1 :
         IF "force-include" \notin DOMAIN build_data
         THEN Raises(set_build_data_finally(s1), "KeyError", "force-include")
         ELSE Returns([s1 EXCEPT !.build_force_include =
                                    normalize_inclusion_map(build_data["force-include"], root)
                                    @@ s1.build_force_include],
                      None))

\* set_build_data from its yield on: the with block ended or raised
set_build_data_exit(s) == set_build_data_finally(s)

----------------------------------------------------------------------------
(* The hook table *)

\* hatchling.builders.constants.BuildEnvVars
NO_HOOKS == "HATCH_BUILD_NO_HOOKS"
HOOKS_ENABLE == "HATCH_BUILD_HOOKS_ENABLE"
HOOK_ENABLE_PREFIX == "HATCH_BUILD_HOOK_ENABLE_"

\* str.upper on the hook names of the model
upper(name) ==
    CASE name = "custom" -> "CUSTOM"
      [] name = "vcs" -> "VCS"
      [] name = "gen" -> "GEN"

env_var_enabled(env_var, default) ==
    IF env_var \in DOMAIN environ THEN environ[env_var] \in {"1", "true"} ELSE default

\* dict.get on a dict value
DictGet(d, key, default) == IF HasKey(d.val, key) THEN Lookup(d.val, key) ELSE default

\* the first entry of a table of hooks that is not itself a table, 0 if none
FirstNonTable(hooks) ==
    Let({i \in 1..Len(hooks) : ~isinstance(hooks[i][2], "dict")}, LAMBDA bad :
        IF bad = {} THEN 0 ELSE CHOOSE i \in bad : \A j \in bad : i <= j)

\* the merge with the global hooks first and winning
MergedHooksGlobalFirst(target_hooks, global_hooks) ==
    global_hooks \o SelectSeq(target_hooks, LAMBDA h : ~HasKey(global_hooks, h[1]))

\* the target's hooks, then the global hooks under names the target lacks
MergedHooks(target_hooks, global_hooks) ==
    target_hooks \o SelectSeq(global_hooks, LAMBDA h : ~HasKey(target_hooks, h[1]))

\* the test that keeps a hook in final_hook_config
HookEnabled(all_hooks_enabled, h) ==
    \/ all_hooks_enabled
    \/ Truthy(DictGet(h[2], "enable-by-default", Bool(TRUE)))
    \/ env_var_enabled(HOOK_ENABLE_PREFIX \o upper(h[1]), FALSE)

\* the enabled hooks with NO_HOOKS ignored
FinalHooksNoSwitch(hooks) ==
    SelectSeq(hooks, LAMBDA h : HookEnabled(env_var_enabled(HOOKS_ENABLE, FALSE), h))

FinalHooks(hooks) ==
    IF ~env_var_enabled(NO_HOOKS, FALSE)
    THEN SelectSeq(hooks, LAMBDA h : HookEnabled(env_var_enabled(HOOKS_ENABLE, FALSE), h))
    ELSE <<>>

\* hook_config computed at every access
hook_config_unmemoized(s) ==
    Let(Get(target_config, "hooks", Dict(<<>>)), LAMBDA target_hook_config :
    IF ~isinstance(target_hook_config, "dict")
    THEN Raises(s, "TypeError", "Field '" \o TargetLocation("hooks") \o "' must be a table")
    ELSE IF FirstNonTable(target_hook_config.val) # 0
    THEN Raises(s, "TypeError",
                "Field '" \o TargetLocation("hooks") \o "."
                    \o target_hook_config.val[FirstNonTable(target_hook_config.val)][1]
                    \o "' must be a table")
    ELSE Let(Get(build_config, "hooks", Dict(<<>>)), LAMBDA global_hook_config :
    IF ~isinstance(global_hook_config, "dict")
    THEN Raises(s, "TypeError", "Field '" \o GlobalLocation("hooks") \o "' must be a table")
    ELSE IF FirstNonTable(global_hook_config.val) # 0
    THEN Raises(s, "TypeError",
                "Field '" \o GlobalLocation("hooks") \o "."
                    \o global_hook_config.val[FirstNonTable(global_hook_config.val)][1]
                    \o "' must be a table")
    ELSE Let(FinalHooks(MergedHooks(target_hook_config.val, global_hook_config.val)),
             LAMBDA final_hook_config :
         Returns([s EXCEPT !.__hook_config = Some(final_hook_config)], final_hook_config))))

hook_config(s) ==
    IF ~IsNone(s.__hook_config) THEN Returns(s, s.__hook_config[1])
    ELSE Let(Get(target_config, "hooks", Dict(<<>>)), LAMBDA target_hook_config :
    IF ~isinstance(target_hook_config, "dict")
    THEN Raises(s, "TypeError", "Field '" \o TargetLocation("hooks") \o "' must be a table")
    ELSE IF FirstNonTable(target_hook_config.val) # 0
    THEN Raises(s, "TypeError",
                "Field '" \o TargetLocation("hooks") \o "."
                    \o target_hook_config.val[FirstNonTable(target_hook_config.val)][1]
                    \o "' must be a table")
    ELSE Let(Get(build_config, "hooks", Dict(<<>>)), LAMBDA global_hook_config :
    IF ~isinstance(global_hook_config, "dict")
    THEN Raises(s, "TypeError", "Field '" \o GlobalLocation("hooks") \o "' must be a table")
    ELSE IF FirstNonTable(global_hook_config.val) # 0
    THEN Raises(s, "TypeError",
                "Field '" \o GlobalLocation("hooks") \o "."
                    \o global_hook_config.val[FirstNonTable(global_hook_config.val)][1]
                    \o "' must be a table")
    ELSE Let(FinalHooks(MergedHooks(target_hook_config.val, global_hook_config.val)),
             LAMBDA final_hook_config :
         Returns([s EXCEPT !.__hook_config = Some(final_hook_config)], final_hook_config))))

----------------------------------------------------------------------------
(* directory, dev-mode-dirs, versions, dependencies *)

\* hatchling.builders.constants.DEFAULT_BUILD_DIRECTORY
DEFAULT_BUILD_DIRECTORY == <<"dist">>

\* os.path.normpath of an absolute path: no trailing separator
normalize_build_directory(build_directory) ==
    IF ~isabs(build_directory)
    THEN RStrip(root \o os_path_sep \o build_directory, "/")
    ELSE Let(RStrip(build_directory, "/"), LAMBDA d : IF d = <<>> THEN os_path_sep ELSE d)

directory(s) ==
    IF ~IsNone(s.__directory) THEN Returns(s, s.__directory[1])
    ELSE IF "directory" \in DOMAIN target_config
    THEN IF ~isinstance(target_config["directory"], "str")
         THEN Raises(s, "TypeError",
                     "Field '" \o TargetLocation("directory") \o "' must be a string")
         ELSE Let(normalize_build_directory(target_config["directory"].val), LAMBDA d :
              Returns([s EXCEPT !.__directory = Some(d)], d))
    ELSE Let(Get(build_config, "directory", Str(DEFAULT_BUILD_DIRECTORY)), LAMBDA v :
         IF ~isinstance(v, "str")
         THEN Raises(s, "TypeError",
                     "Field '" \o GlobalLocation("directory") \o "' must be a string")
         ELSE Let(normalize_build_directory(v.val), LAMBDA d :
              Returns([s EXCEPT !.__directory = Some(d)], d)))

dev_mode_dirs(s) ==
    IF ~IsNone(s.__dev_mode_dirs) THEN Returns(s, s.__dev_mode_dirs[1])
    ELSE StringList(s, "dev-mode-dirs", List(<<>>), "Directory", LAMBDA all_dev_mode_dirs :
         Returns([s EXCEPT !.__dev_mode_dirs = Some(all_dev_mode_dirs)], all_dev_mode_dirs))

\* the keys of an OrderedDict filled from a sequence: first occurrences, in order
RECURSIVE OrderedSet(_)
OrderedSet(seq) ==
    IF seq = <<>> THEN <<>>
    ELSE Let(OrderedSet(SubSeq(seq, 1, Len(seq) - 1)), LAMBDA before :
         IF \E i \in 1..Len(before) : before[i] = seq[Len(seq)]
         THEN before ELSE Append(before, seq[Len(seq)]))

\* sorted() of a set of strings
RECURSIVE SortedSet(_)
SortedSet(set) ==
    IF set = {} THEN <<>>
    ELSE Let(CHOOSE x \in set : \A y \in set : x = y \/ StrLess(x, y), LAMBDA least :
         <<least>> \o SortedSet(set \ {least}))

\* the builder: get_default_versions(), get_version_api(), metadata.core.dependencies
default_versions == << <<"standard">> >>
version_api == { <<"standard">>, <<"editable">> }
core_dependencies == << <<"numpy">>, <<"lib">> >>

\* versions without the test against the builder's version API
versions_unchecked(s) ==
    IF ~IsNone(s.__versions) THEN Returns(s, s.__versions[1])
    ELSE Let(Get(target_config, "versions", List(<<>>)), LAMBDA v :
    IF ~isinstance(v, "list")
    THEN Raises(s, "TypeError",
                "Field '" \o TargetLocation("versions") \o "' must be an array of strings")
    ELSE Let(FirstInvalid(v.val, "Version", TargetLocation("versions")), LAMBDA bad :
    IF ~IsNone(bad) THEN [self |-> s, out |-> bad[1]]
    ELSE Let(OrderedSet(Values(v.val)), LAMBDA all_versions :
    IF all_versions = <<>>
    THEN Let(OrderedSet(default_versions), LAMBDA d :
         Returns([s EXCEPT !.__versions = Some(d)], d))
    ELSE Returns([s EXCEPT !.__versions = Some(all_versions)], all_versions))))

versions(s) ==
    IF ~IsNone(s.__versions) THEN Returns(s, s.__versions[1])
    ELSE Let(Get(target_config, "versions", List(<<>>)), LAMBDA v :
    IF ~isinstance(v, "list")
    THEN Raises(s, "TypeError",
                "Field '" \o TargetLocation("versions") \o "' must be an array of strings")
    ELSE Let(FirstInvalid(v.val, "Version", TargetLocation("versions")), LAMBDA bad :
    IF ~IsNone(bad) THEN [self |-> s, out |-> bad[1]]
    ELSE Let(OrderedSet(Values(v.val)), LAMBDA all_versions :
    IF all_versions = <<>>
    THEN Let(OrderedSet(default_versions), LAMBDA d :
         Returns([s EXCEPT !.__versions = Some(d)], d))
    ELSE Let({all_versions[i] : i \in 1..Len(all_versions)} \ version_api,
             LAMBDA unknown_versions :
         IF unknown_versions # {}
         THEN Raises(s, "ValueError",
                     <<"Unknown versions in field '" \o TargetLocation("versions") \o "': ",
                       SortedSet(unknown_versions)>>)
         ELSE Returns([s EXCEPT !.__versions = Some(all_versions)], all_versions)))))

\* the first element of a dependency list that is not a string, 0 if none
FirstNonString(items) ==
    Let({i \in 1..Len(items) : ~isinstance(items[i], "str")}, LAMBDA bad :
        IF bad = {} THEN 0 ELSE CHOOSE i \in bad : \A j \in bad : i <= j)

\* the loop of dependencies over the enabled hooks: an exception, or the
\* dependencies gathered and whether runtime dependencies are required
RECURSIVE HookDependencies(_, _, _, _)
HookDependencies(s, hooks, deps, runtime) ==
    IF hooks = <<>> THEN Returns(s, [dependencies |-> deps, runtime |-> runtime])
    ELSE Let(DictGet(Head(hooks)[2], "require-runtime-dependencies", Bool(FALSE)), LAMBDA rrd :
    IF ~isinstance(rrd, "bool")
    THEN Raises(s, "TypeError",
                "Option 'require-runtime-dependencies' of build hook '" \o Head(hooks)[1]
                    \o "' must be a boolean")
    ELSE Let(DictGet(Head(hooks)[2], "dependencies", List(<<>>)), LAMBDA hook_dependencies :
    IF ~isinstance(hook_dependencies, "list")
    THEN Raises(s, "TypeError",
                "Option 'dependencies' of build hook '" \o Head(hooks)[1]
                    \o "' must be an array")
    ELSE IF FirstNonString(hook_dependencies.val) # 0
    THEN Raises(s, "TypeError",
                "Dependency #" \o ToString(FirstNonString(hook_dependencies.val))
                    \o " of option 'dependencies' of build hook '" \o Head(hooks)[1]
                    \o "' must be a string")
    ELSE HookDependencies(s, Tail(hooks), deps \o Values(hook_dependencies.val),
                          runtime \/ rrd.val)))

dependencies(s) ==
    IF ~IsNone(s.__dependencies) THEN Returns(s, s.__dependencies[1])
    ELSE Let(Get(target_config, "dependencies", List(<<>>)), LAMBDA target_dependencies :
    IF ~isinstance(target_dependencies, "list")
    THEN Raises(s, "TypeError",
                "Field '" \o TargetLocation("dependencies") \o "' must be an array")
    ELSE IF FirstNonString(target_dependencies.val) # 0
    THEN Raises(s, "TypeError",
                "Dependency #" \o ToString(FirstNonString(target_dependencies.val))
                    \o " of field '" \o TargetLocation("dependencies") \o "' must be a string")
    ELSE Let(Get(build_config, "dependencies", List(<<>>)), LAMBDA global_dependencies :
    IF ~isinstance(global_dependencies, "list")
    THEN Raises(s, "TypeError",
                "Field '" \o GlobalLocation("dependencies") \o "' must be an array")
    ELSE IF FirstNonString(global_dependencies.val) # 0
    THEN Raises(s, "TypeError",
                "Dependency #" \o ToString(FirstNonString(global_dependencies.val))
                    \o " of field '" \o GlobalLocation("dependencies") \o "' must be a string")
    ELSE Try(require_runtime_dependencies(s), LAMBDA rrd :
         Try(hook_config(rrd.self), LAMBDA hooks :
         Try(HookDependencies(hooks.self, hooks.out.val,
                              Values(target_dependencies.val) \o Values(global_dependencies.val),
                              rrd.out.val), LAMBDA h :
         Let(OrderedSet(h.out.val.dependencies \o
                        (IF h.out.val.runtime THEN core_dependencies ELSE <<>>)), LAMBDA d :
         Returns([h.self EXCEPT !.__dependencies = Some(d)], d)))))))

----------------------------------------------------------------------------
(* The source map *)

\* os.path.split: what precedes the last separator, and what follows it
os_path_split(path) ==
    Let({i \in 1..Len(path) : path[i] = "/"}, LAMBDA seps :
        IF seps = {} THEN << <<>>, path >>
        ELSE Let(CHOOSE i \in seps : \A j \in seps : j <= i, LAMBDA i :
             << RStrip(SubSeq(path, 1, i - 1), "/"), SubSeq(path, i + 1, Len(path)) >>))

\* the sources of the list form: each directory is stripped
RECURSIVE ListSources(_)
ListSources(raw) ==
    IF raw = <<>> THEN <<>>
    ELSE (normalize_relative_directory(raw[Len(raw)]) :> <<>>)
         @@ ListSources(SubSeq(raw, 1, Len(raw) - 1))

\* the replacement of the mapping form
SourceReplacement(path) ==
    Let(normalize_relative_path(path), LAMBDA normalized_path :
        IF normalized_path # <<>> THEN normalized_path \o os_path_sep ELSE normalized_path)

\* the sources of the mapping form: each directory is rewritten
RECURSIVE DictSources(_)
DictSources(raw) ==
    IF raw = <<>> THEN <<>>
    ELSE (normalize_relative_directory(raw[Len(raw)][1]) :> SourceReplacement(raw[Len(raw)][2].val))
         @@ DictSources(SubSeq(raw, 1, Len(raw) - 1))

\* the loop over the packages: the parent directory of a package that is
\* not itself a source becomes a stripped source
RECURSIVE PackageSources(_, _)
PackageSources(pkgs, srcs) ==
    IF pkgs = <<>> THEN srcs
    ELSE Let(os_path_split(Head(pkgs))[1], LAMBDA source :
         PackageSources(Tail(pkgs),
             IF source # <<>> /\ normalize_relative_directory(Head(pkgs)) \notin DOMAIN srcs
             THEN (normalize_relative_directory(source) :> <<>>) @@ srcs
             ELSE srcs))

\* dict(sorted(sources.items())): the items in ascending order of their keys
SortedItems(map) ==
    Let(SortedSet(DOMAIN map), LAMBDA keys : [i \in 1..Len(keys) |-> <<keys[i], map[keys[i]]>>])

\* the explicit sources: an exception, or the continuation on the map
ExplicitSources(s, K(_)) ==
    Let(Get(OptionConfig("sources"), "sources", List(<<>>)), LAMBDA raw_sources :
    IF isinstance(raw_sources, "list")
    THEN Let(FirstInvalid(raw_sources.val, "Source", OptionLocation("sources")), LAMBDA bad :
         IF ~IsNone(bad) THEN [self |-> s, out |-> bad[1]]
         ELSE K(ListSources(Values(raw_sources.val))))
    ELSE IF isinstance(raw_sources, "dict")
    THEN Let({i \in 1..Len(raw_sources.val) :
                 \/ raw_sources.val[i][1] = <<>>
                 \/ ~isinstance(raw_sources.val[i][2], "str")}, LAMBDA bad :
         IF bad # {}
         THEN Let(CHOOSE i \in bad : \A j \in bad : i <= j, LAMBDA i :
              IF raw_sources.val[i][1] = <<>>
              THEN Raises(s, "ValueError",
                       "Source #" \o ToString(i) \o " in field '" \o OptionLocation("sources")
                           \o "' cannot be an empty string")
              ELSE Raises(s, "TypeError",
                       <<"Path for source '", raw_sources.val[i][1], "' in field '",
                         OptionLocation("sources"), "' must be a string">>))
         ELSE K(DictSources(raw_sources.val)))
    ELSE Raises(s, "TypeError",
                "Field '" \o OptionLocation("sources")
                    \o "' must be a mapping or array of strings"))

sources(s) ==
    IF ~IsNone(s.__sources) THEN Returns(s, s.__sources[1])
    ELSE ExplicitSources(s, LAMBDA explicit :
         Try(packages(s), LAMBDA p :
         Let(SortedItems(PackageSources(p.out.val, explicit)), LAMBDA v :
         Returns([p.self EXCEPT !.__sources = Some(v)], v))))

\* the first source, in the order of the map, that the path starts with; 0 if none
FirstSource(srcs, relative_path) ==
    Let({i \in 1..Len(srcs) : StartsWith(relative_path, srcs[i][1])}, LAMBDA hits :
        IF hits = {} THEN 0 ELSE CHOOSE i \in hits : \A j \in hits : i <= j)

\* the last source of the map that the path starts with; 0 if none
LastSource(srcs, relative_path) ==
    Let({i \in 1..Len(srcs) : StartsWith(relative_path, srcs[i][1])}, LAMBDA hits :
        IF hits = {} THEN 0 ELSE CHOOSE i \in hits : \A j \in hits : j <= i)

\* get_distribution_path taking the last matching source
get_distribution_path_last(s, relative_path) ==
    Try(sources(s), LAMBDA r :
    Let(LastSource(r.out.val, relative_path), LAMBDA i :
    IF i = 0 THEN Returns(r.self, relative_path)
    ELSE Returns(r.self, Replace1(relative_path, r.out.val[i][1], r.out.val[i][2]))))

get_distribution_path(s, relative_path) ==
    Try(sources(s), LAMBDA r :
    Let(FirstSource(r.out.val, relative_path), LAMBDA i :
    IF i = 0 THEN Returns(r.self, relative_path)
    ELSE Returns(r.self, Replace1(relative_path, r.out.val[i][1], r.out.val[i][2]))))

----------------------------------------------------------------------------
(* The data of the model: paths, patterns, build data, configurations *)

PathMod == <<"src", "/", "pkg", "/", "mod", ".py">>
PathPyc == <<"src", "/", "pkg", "/", "mod", ".py", "c">>
PathTool == <<"tool", ".py">>
PathGen == <<"build", "/", "gen", ".py">>
Paths == {PathMod, PathPyc, PathTool, PathGen}

StarPy == <<"*", ".py">>
ToolPy == <<"tool", ".py">>
ModPy == <<"mod", ".py">>
GenPy == <<"gen", ".py">>

Table1(k1, v1) == k1 :> v1
Table2(k1, v1, k2, v2) == (k1 :> v1) @@ (k2 :> v2)
Table3(k1, v1, k2, v2, k3, v3) == (k1 :> v1) @@ (k2 :> v2) @@ (k3 :> v3)
Table4(k1, v1, k2, v2, k3, v3, k4, v4) == (k1 :> v1) @@ (k2 :> v2) @@ (k3 :> v3) @@ (k4 :> v4)
Strs(l) == List([i \in 1..Len(l) |-> Str(l[i])])

\* what a build hook hands to set_build_data
BuildDatas ==
    << Table2("artifacts", <<GenPy>>,
              "force-include", << <<<<"gen", "/", "mod">>, <<"pkg", "/", "mod">>>> >>),
       Table2("artifacts", <<>>,
              "force-include", << <<<<"lib">>, <<"/", "pkg", "/", "lib", "/">>>> >>),
       Table1("artifacts", <<StarPy>>) >>

Project(t, b, g) == [target |-> t, build |-> b, gitignore |-> g]

GitignoreBuild == Some(<< <<"build", "\n">> >>)
GitignoreMixed == Some(<< <<"#", "build", "\n">>, <<"\n">>, <<"*", ".py", "\n">>,
                          <<"!", "tool", ".py", "\n">> >>)

\* the projects the inclusion decision is checked on
InclusionProjects ==
    << Project(<<>>, <<>>, None),
       Project(Table1("only-packages", Bool(TRUE)),
               Table1("include", Strs(<<StarPy>>)),
               GitignoreBuild),
       Project(Table1("artifacts", Strs(<<GenPy>>)),
               Table3("packages", Strs(<<<<"src", "/", "pkg", "/">>>>),
                      "only-packages", Bool(TRUE),
                      "artifacts", Strs(<<StarPy>>)),
               GitignoreBuild),
       Project(Table2("include", Strs(<<ToolPy>>), "ignore-vcs", Bool(TRUE)),
               Table3("include", Strs(<<StarPy>>),
                      "exclude", Strs(<<ToolPy>>),
                      "artifacts", Strs(<<ToolPy>>)),
               GitignoreMixed),
       Project(Table2("exclude", Strs(<<ModPy>>), "ignore-vcs", Bool(FALSE)),
               Table3("exclude", Strs(<<ToolPy>>),
                      "ignore-vcs", Bool(TRUE),
                      "force-include", Dict(<< <<<<"lib">>, Str(<<"pkg", "/", "lib">>)>> >>)),
               GitignoreMixed),
       Project(Table4("artifacts", Strs(<<StarPy>>),
                      "only-packages", Bool(TRUE),
                      "exclude", Strs(<<StarPy>>),
                      "include", Strs(<<<<"lib">>>>)),
               Table1("only-packages", Bool(FALSE)),
               None),
       Project(Table1("include", List(<<Str(StarPy), Number(7)>>)),
               Table1("exclude", List(<<Str(ToolPy), Str(<<>>)>>)),
               GitignoreBuild),
       Project(Table2("artifacts", Str(GenPy), "ignore-vcs", Str(<<"c">>)),
               Table2("only-packages", Number(1), "packages", List(<<Str(<<>>)>>)),
               GitignoreBuild) >>

\* the projects the build overlay is checked on
OverlayProjects ==
    << Project(<<>>, <<>>, None),
       Project(Table2("artifacts", Strs(<<ToolPy>>),
                      "force-include",
                          Dict(<< <<<<"lib">>, Str(<<"pkg", "/", "lib">>)>>,
                                  <<<<"gen", "/", "mod">>, Str(<<"mod">>)>> >>)),
               Table2("include", Strs(<<<<"src">>>>),
                      "force-include", Dict(<< <<<<"tool">>, Str(<<"tool">>)>> >>)),
               GitignoreBuild),
       Project(Table1("force-include", Dict(<< <<<<"lib">>, Str(<<>>)>> >>)),
               Table1("exclude", Str(StarPy)),
               None) >>

\* the projects the source map is checked on
PathSrcSrc == <<"src", "/", "src", "/", "mod", ".py">>
SourcePaths == {PathMod, PathTool, PathSrcSrc, PathGen}
SrcPkg == <<"src", "/", "pkg">>

SourceProjects ==
    << Project(<<>>, <<>>, None),
       Project(<<>>,
               Table2("sources", Strs(<< <<"src">> >>), "packages", Strs(<<SrcPkg>>)),
               None),
       Project(Table1("sources", Dict(<< << <<"src">>, Str(<<"lib">>) >>,
                                         << SrcPkg, Str(<<"out", "/">>) >> >>)),
               Table1("sources", Strs(<< <<"build">> >>)),
               None),
       Project(Table1("sources", Dict(<< << <<"src">>, Str(<<"lib">>) >> >>)),
               Table1("packages", Strs(<<SrcPkg>>)),
               None),
       Project(Table2("sources", Strs(<<SrcPkg>>), "packages", Strs(<<SrcPkg>>)),
               <<>>,
               None),
       Project(Table1("packages", Strs(<< SrcPkg, <<"tool">>, <<"build", "/", "gen", "/">> >>)),
               <<>>,
               None),
       Project(Table1("sources", Dict(<< << <<"src", "/">>, Str(<<>>) >>,
                                         << <<"build">>, Str(<<"/", "out", "/", "lib", "/">>) >>,
                                         << <<"src">>, Str(<<"pkg">>) >> >>)),
               Table1("packages", Strs(<< <<"lib", "/", "mod">> >>)),
               None),
       Project(Table1("sources", Number(3)), <<>>, None),
       Project(<<>>,
               Table1("sources", List(<<Str(<<"src">>), Str(<<>>)>>)),
               None),
       Project(Table1("sources", Dict(<< << <<"src">>, Number(1) >> >>)),
               Table1("sources", Strs(<< <<"src">> >>)),
               None),
       Project(Table1("sources", Dict(<< << <<>>, Str(<<"lib">>) >> >>)),
               <<>>,
               None),
       Project(Table1("sources", Strs(<< <<"build">> >>)),
               Table1("packages", List(<<Number(2)>>)),
               None),
       Project(Table1("sources", Strs(<< <<"src", "/">>, <<"build">>, <<"src">> >>)),
               Table1("sources", Dict(<< << <<"src">>, Str(<<"lib">>) >> >>)),
               None),
       Project(Table2("sources", Dict(<< << <<"build">>, Str(<<"src", "/", "pkg">>) >> >>),
                      "packages", Strs(<< <<"build", "/", "gen">>, SrcPkg >>)),
               Table1("packages", Strs(<< <<"tool">> >>)),
               None) >>

\* the projects the option lookups are checked on
HookTable(deps, runtime) ==
    Dict(<< <<"dependencies", Strs(deps)>>, <<"require-runtime-dependencies", Bool(runtime)>> >>)

OptionProjects ==
    << Project(<<>>, <<>>, None),
       Project(Table4("ignore-vcs", Bool(TRUE), "require-runtime-dependencies", Bool(TRUE),
                      "only-packages", Bool(TRUE), "reproducible", Bool(FALSE))
                   @@ Table4("dev-mode-exact", Bool(TRUE), "directory", Str(<<"out">>),
                             "dev-mode-dirs", Strs(<< <<"src">> >>),
                             "versions", Strs(<< <<"editable">>, <<"editable">> >>))
                   @@ Table1("dependencies", Strs(<< <<"tool">>, <<"lib">> >>)),
               Table4("ignore-vcs", Bool(FALSE), "require-runtime-dependencies", Bool(FALSE),
                      "only-packages", Bool(FALSE), "reproducible", Bool(TRUE))
                   @@ Table4("dev-mode-exact", Bool(FALSE), "directory", Str(<<"build">>),
                             "dev-mode-dirs", Strs(<< <<"lib">> >>),
                             "versions", Strs(<< <<"standard">> >>))
                   @@ Table1("dependencies", Strs(<< <<"gen">>, <<"tool">> >>)),
               None),
       Project(<<>>,
               Table4("ignore-vcs", Bool(TRUE), "require-runtime-dependencies", Bool(FALSE),
                      "only-packages", Bool(TRUE), "reproducible", Bool(FALSE))
                   @@ Table4("dev-mode-exact", Bool(TRUE), "directory", Str(<<"/", "out", "/">>),
                             "dev-mode-dirs", Strs(<< <<"lib">>, <<"src">> >>),
                             "versions", Strs(<< <<"editable">> >>))
                   @@ Table2("dependencies", Strs(<< <<"gen">> >>),
                             "hooks", Dict(<< <<"custom", HookTable(<< <<"mod">> >>, TRUE)>> >>)),
               None),
       Project(Table4("ignore-vcs", Number(1), "reproducible", Str(<<"c">>),
                      "directory", Number(2), "dev-mode-dirs", Str(<<"src">>))
                   @@ Table2("versions", List(<<Str(<<"standard">>), Str(<<>>)>>),
                             "dependencies", List(<<Str(<<"lib">>), Number(4)>>)),
               Table4("ignore-vcs", Bool(TRUE), "reproducible", Bool(FALSE),
                      "directory", Str(<<"build">>), "dev-mode-dirs", Strs(<< <<"lib">> >>))
                   @@ Table2("versions", Strs(<< <<"standard">> >>),
                             "dependencies", Strs(<< <<"gen">> >>)),
               None),
       Project(Table2("versions", Strs(<< <<"editable">>, <<"bogus">>, <<"standard">> >>),
                      "dependencies", Strs(<< <<"lib">>, <<"lib">> >>)),
               Table4("only-packages", Str(<<>>), "dev-mode-exact", Number(0),
                      "directory", Bool(TRUE), "dev-mode-dirs", List(<<Str(<<>>)>>))
                   @@ Table2("require-runtime-dependencies", Bool(TRUE),
                             "dependencies", Strs(<< <<"numpy">>, <<"lib">> >>)),
               None),
       Project(Table2("versions", List(<<>>), "directory", Str(<<"out", "/", "lib", "/">>)),
               Table2("versions", Strs(<< <<"bogus">> >>),
                      "dependencies", Str(<<"lib">>)),
               None) >>

\* the projects the hook table is checked on
Off == Dict(<< <<"enable-by-default", Bool(FALSE)>> >>)
On == Dict(<< <<"enable-by-default", Bool(TRUE)>> >>)

HookProjects ==
    << Project(Table1("hooks", Dict(<< <<"custom", Dict(<<>>)>>, <<"gen", Off>> >>)),
               Table1("hooks", Dict(<< <<"vcs", Off>>, <<"custom", Off>>, <<"gen", On>> >>)),
               None),
       Project(<<>>,
               Table1("hooks", Dict(<< <<"gen", Dict(<< <<"enable-by-default", Str(<<>>)>> >>)>>,
                                       <<"vcs", Dict(<< <<"enable-by-default", Number(1)>> >>)>>,
                                       <<"custom", HookTable(<< <<"lib">> >>, FALSE)>> >>)),
               None),
       Project(Table1("hooks", Dict(<< <<"vcs", Off>>,
                                       <<"gen", Dict(<< <<"dependencies", Number(1)>> >>)>> >>)),
               <<>>,
               None),
       Project(Table1("hooks", Str(<<"gen">>)),
               Table1("hooks", Dict(<< <<"gen", Off>> >>)),
               None),
       Project(Table1("hooks", Dict(<< <<"gen", Off>>, <<"vcs", Number(0)>> >>)),
               Table1("hooks", Number(0)),
               None),
       Project(Table1("hooks", Dict(<< <<"gen", Off>> >>)),
               Table1("hooks", Dict(<< <<"vcs", Off>>, <<"custom", List(<<>>)>> >>)),
               None) >>

\* the switches of the environment and the values they are given
Switches ==
    <<NO_HOOKS, HOOKS_ENABLE, HOOK_ENABLE_PREFIX \o "GEN", HOOK_ENABLE_PREFIX \o "VCS">>
SwitchValues == {"1", "true", "0"}
Environments ==
    UNION {[on -> SwitchValues] : on \in SUBSET {Switches[i] : i \in 1..Len(Switches)}}

----------------------------------------------------------------------------
(* The operations on the object, one action each *)

Call(op, args, r) ==
    /\ self' = r.self
    /\ last' = [op |-> op, args |-> args, out |-> r.out]
    /\ UNCHANGED <<target_config, build_config, gitignore, environ, scopes, held>>

IncludePathOf(paths) ==
    \E relative_path \in paths, is_package \in BOOLEAN :
        Call("include_path", <<relative_path, is_package>>,
             include_path(self, relative_path, is_package))

IncludePath == IncludePathOf(Paths)

IncludeSpec == Call("include_spec", <<>>, include_spec(self))
ExcludeSpec == Call("exclude_spec", <<>>, exclude_spec(self))
ArtifactSpec == Call("artifact_spec", <<>>, artifact_spec(self))
Packages == Call("packages", <<>>, packages(self))
IgnoreVcs == Call("ignore_vcs", <<>>, ignore_vcs(self))
OnlyPackages == Call("only_packages", <<>>, only_packages(self))
ForceInclude == Call("force_include", <<>>, force_include(self))

\* get_force_include, whose caller keeps the mapping it is handed
GetForceInclude ==
    LET r == get_force_include(self)
    IN /\ self' = r.self
       /\ last' = [op |-> "get_force_include", args |-> <<>>, out |-> r.out]
       /\ held' = IF Raised(r) THEN held
                  ELSE Some([object |-> get_force_include_object, contents |-> r.out.val])
       /\ UNCHANGED <<target_config, build_config, gitignore, environ, scopes>>


RequireRuntimeDependencies ==
    Call("require_runtime_dependencies", <<>>, require_runtime_dependencies(self))
Reproducible == Call("reproducible", <<>>, reproducible(self))
DevModeExact == Call("dev_mode_exact", <<>>, dev_mode_exact(self))
DevModeDirs == Call("dev_mode_dirs", <<>>, dev_mode_dirs(self))
Directory == Call("directory", <<>>, directory(self))
Versions == Call("versions", <<>>, versions(self))
Dependencies == Call("dependencies", <<>>, dependencies(self))
HookConfig == Call("hook_config", <<>>, hook_config(self))
Sources == Call("sources", <<>>, sources(self))

GetDistributionPath ==
    \E relative_path \in SourcePaths :
        Call("get_distribution_path", <<relative_path>>,
             get_distribution_path(self, relative_path))

\* what the object answers in a state, without the memo writes of asking
Answers(s) ==
    [include_path |-> [a \in Paths \X BOOLEAN |-> include_path(s, a[1], a[2]).out],
     get_force_include |-> get_force_include(s).out]

\* entering a with config.set_build_data(build_data) block
SetBuildData ==
    \E n \in 1..Len(BuildDatas) :
        LET r == set_build_data_enter(self, BuildDatas[n])
            frame == [build_data |-> n, outer |-> Len(scopes),
                      before |-> IF scopes = <<>> THEN Some(Answers(self)) ELSE None]
        IN /\ Len(scopes) < MaxScopes
           /\ self' = r.self
           /\ scopes' = IF Raised(r) THEN scopes ELSE Append(scopes, frame)
           /\ last' = [op |-> "set_build_data", args |-> frame, out |-> r.out]
           /\ UNCHANGED <<target_config, build_config, gitignore, environ, held>>

\* leaving the block: its body returned, or raised
ExitBuildData ==
    \E i \in 1..Len(scopes), how \in {"return", "raise"} :
        /\ self' = set_build_data_exit(self)
        /\ scopes' = [j \in 1..(Len(scopes) - 1) |-> IF j < i THEN scopes[j] ELSE scopes[j + 1]]
        /\ last' = [op |-> "set_build_data.exit", args |-> scopes[i],
                    out |-> IF how = "return" THEN Ret(None) ELSE Raise("Exception", "body")]
        /\ UNCHANGED <<target_config, build_config, gitignore, environ, held>>

----------------------------------------------------------------------------
(* Specifications *)

InitObject ==
    /\ self = NewConfig
    /\ scopes = <<>>
    /\ held = None
    /\ last = [op |-> "__init__", args |-> <<>>, out |-> Ret(None)]

InitProject(projects) ==
    /\ \E n \in 1..Len(projects) :
          /\ target_config = projects[n].target
          /\ build_config = projects[n].build
          /\ gitignore = projects[n].gitignore
    /\ environ = <<>>
    /\ InitObject

\* The inclusion decision and the options it reads, queried in any order,
\* with at most one set_build_data scope open (the caller's side of the
\* overlay's single-owner contract).  The operations left out write only
\* memo fields that these never read.
InitInclusion == InitProject(InclusionProjects)

NextInclusion ==
    \/ IncludePath
    \/ IncludeSpec
    \/ ExcludeSpec
    \/ ArtifactSpec
    \/ Packages
    \/ IgnoreVcs
    \/ OnlyPackages
    \/ (scopes = <<>> /\ SetBuildData)
    \/ ExitBuildData

SpecInclusion == InitInclusion /\ [][NextInclusion]_vars

\* The build overlay: scopes opened and closed in any order, overlapping up
\* to MaxScopes, around queries of include_path and get_force_include.
InitOverlay == InitProject(OverlayProjects)

NextOverlay ==
    \/ IncludePathOf({PathGen, PathTool})
    \/ ForceInclude
    \/ GetForceInclude
    \/ SetBuildData
    \/ ExitBuildData

SpecOverlay == InitOverlay /\ [][NextOverlay]_vars

\* The source map and the rewriting of paths shipped in a distribution.
InitSources == InitProject(SourceProjects)

NextSources ==
    \/ Packages
    \/ Sources
    \/ GetDistributionPath

SpecSources == InitSources /\ [][NextSources]_vars

\* The option lookups, queried in any order.
InitOptions == InitProject(OptionProjects)

NextOptions ==
    \/ IgnoreVcs
    \/ RequireRuntimeDependencies
    \/ OnlyPackages
    \/ Reproducible
    \/ DevModeExact
    \/ DevModeDirs
    \/ Directory
    \/ Versions
    \/ Dependencies

SpecOptions == InitOptions /\ [][NextOptions]_vars

\* The hook table under every setting of the switches of the environment;
\* the environment is read, never written.
InitHooks ==
    /\ \E n \in 1..Len(HookProjects) :
          /\ target_config = HookProjects[n].target
          /\ build_config = HookProjects[n].build
          /\ gitignore = HookProjects[n].gitignore
    /\ environ \in Environments
    /\ InitObject

NextHooks ==
    \/ HookConfig
    \/ Dependencies

SpecHooks == InitHooks /\ [][NextHooks]_vars

\* The versions option on every list of up to MaxVersions version names,
\* known and unknown, with and without a global-level list beside it.
MaxVersions == 3
VersionNames == { <<"standard">>, <<"editable">>, <<"bogus">>, <<"numpy">> }
VersionLists == UNION {[1..n -> VersionNames] : n \in 0..MaxVersions}

InitVersions ==
    /\ target_config \in {<<>>} \cup {Table1("versions", Strs(l)) : l \in VersionLists}
    /\ build_config \in {<<>>, Table1("versions", Strs(<< <<"bogus">> >>))}
    /\ gitignore = None
    /\ environ = <<>>
    /\ InitObject

NextVersions == Versions

SpecVersions == InitVersions /\ [][NextVersions]_vars

\* The option accesses on configurations with values of the wrong shape
\* and lists with invalid elements, at either level, queried in any order.
Bad == Number(7)

ErrorProjects ==
    << Project(Table4("include", List(<<Str(StarPy), Bad>>), "exclude", Str(StarPy),
                      "artifacts", List(<<Str(<<>>)>>),
                      "packages", List(<<Str(SrcPkg), Str(<<>>), Bad>>))
                   @@ Table4("ignore-vcs", Bad, "only-packages", Str(<<"c">>),
                             "require-runtime-dependencies", Str(<<>>),
                             "reproducible", Bool(FALSE))
                   @@ Table4("dev-mode-exact", List(<<>>), "dev-mode-dirs", List(<<Bad, Str(<<>>)>>),
                             "directory", Bad,
                             "versions", List(<<Str(<<"standard">>), Bad>>))
                   @@ Table4("dependencies", List(<<Str(<<"lib">>), Bad>>), "hooks", Str(<<"gen">>),
                             "sources", List(<<Str(<<"src">>), Str(<<>>)>>),
                             "force-include", Str(<<"lib">>)),
               Table4("include", Strs(<<StarPy>>), "exclude", Strs(<<ToolPy>>),
                      "artifacts", Strs(<<GenPy>>), "packages", Strs(<<SrcPkg>>))
                   @@ Table4("ignore-vcs", Bool(TRUE), "only-packages", Bool(TRUE),
                             "require-runtime-dependencies", Bool(TRUE),
                             "reproducible", Bad)
                   @@ Table4("dev-mode-exact", Bool(TRUE), "dev-mode-dirs", Strs(<< <<"src">> >>),
                             "directory", Str(<<"out">>),
                             "versions", Strs(<< <<"editable">> >>))
                   @@ Table4("dependencies", Strs(<< <<"lib">> >>), "hooks", Dict(<<>>),
                             "sources", Strs(<< <<"src">> >>),
                             "force-include", Dict(<<>>)),
               None),
       Project(Table1("versions", Strs(<< <<"editable">> >>)),
               Table4("include", Str(StarPy), "exclude", List(<<Str(ToolPy), Str(<<>>), Bad>>),
                      "artifacts", Bad, "packages", Bad)
                   @@ Table4("ignore-vcs", Bool(TRUE), "only-packages", Bad,
                             "require-runtime-dependencies", Bad,
                             "reproducible", Str(<<>>))
                   @@ Table4("dev-mode-exact", Bad, "dev-mode-dirs", Bad,
                             "directory", List(<<>>),
                             "versions", Bad)
                   @@ Table4("dependencies", List(<<Bad>>),
                             "hooks", Dict(<< <<"gen", Off>>, <<"custom", Bad>> >>),
                             "sources", Dict(<< << <<"src">>, Str(<<"lib">>) >>,
                                                << <<"build">>, Bad >> >>),
                             "force-include",
                                 Dict(<< << <<"lib">>, Str(<<"pkg">>) >>,
                                         << <<"tool">>, Str(<<>>) >> >>)),
               None),
       Project(Table4("include", Strs(<<StarPy>>), "packages", List(<<Bad>>),
                      "exclude", Strs(<<ToolPy>>), "ignore-vcs", Str(<<"c">>))
                   @@ Table4("only-packages", Bad, "reproducible", Bad,
                             "require-runtime-dependencies", Bool(FALSE),
                             "dev-mode-exact", Bad)
                   @@ Table4("dev-mode-dirs", Str(<<>>), "directory", Str(<<"out">>),
                             "versions", Strs(<< <<"editable">>, <<"bogus">> >>),
                             "dependencies", Strs(<< <<"lib">> >>))
                   @@ Table3("hooks", Dict(<< <<"custom", Dict(<< <<"dependencies",
                                                   List(<<Str(<<"gen">>), Bad>>)>> >>)>> >>),
                             "sources", Dict(<< << <<>>, Str(<<"lib">>) >> >>),
                             "force-include", Dict(<< << <<>>, Str(<<"pkg">>) >> >>)),
               Table2("artifacts", Strs(<<GenPy>>), "dependencies", Strs(<< <<"tool">> >>)),
               None),
       Project(Table4("include", Bad, "exclude", Bad, "artifacts", Bad,
                      "packages", Strs(<<SrcPkg>>))
                   @@ Table4("ignore-vcs", Bad, "only-packages", Bad,
                             "require-runtime-dependencies", Bad, "reproducible", Bad)
                   @@ Table4("dev-mode-exact", Bad, "dev-mode-dirs", Bad,
                             "directory", Bad, "versions", Bad)
                   @@ Table3("dependencies", Bad,
                             "hooks", Dict(<< <<"gen",
                                 Dict(<< <<"require-runtime-dependencies", Bad>> >>)>> >>),
                             "force-include",
                                 Dict(<< << <<"lib">>, Bad >> >>)),
               Table2("sources", Strs(<< <<"build">> >>),
                      "hooks", Dict(<< <<"vcs", Bad>> >>)),
               None) >>

InitErrors == InitProject(ErrorProjects)

NextErrors ==
    \/ IncludeSpec
    \/ ExcludeSpec
    \/ ArtifactSpec
    \/ Packages
    \/ IgnoreVcs
    \/ OnlyPackages
    \/ RequireRuntimeDependencies
    \/ Reproducible
    \/ DevModeExact
    \/ DevModeDirs
    \/ Directory
    \/ Versions
    \/ Dependencies
    \/ HookConfig
    \/ Sources
    \/ ForceInclude

SpecErrors == InitErrors /\ [][NextErrors]_vars

\* The memoized accesses while the inputs a recomputation would read are
\* replaced behind the object's back: the caller's tables, the ignore file
\* and the environment.
MemoProjects ==
    << Project(<<>>, <<>>, GitignoreBuild),
       Project(Table4("include", Strs(<<StarPy>>), "artifacts", Strs(<<GenPy>>),
                      "only-packages", Bool(TRUE), "dev-mode-dirs", Strs(<< <<"src">> >>))
                   @@ Table2("force-include", Dict(<< << <<"lib">>, Str(<<"pkg">>) >> >>),
                             "exclude", Strs(<<ToolPy>>)),
               Table2("packages", Strs(<<SrcPkg>>),
                      "hooks", Dict(<< <<"custom", Dict(<<>>)>> >>)),
               GitignoreMixed) >>

MemoEnvironments == {<<>>, Table1(NO_HOOKS, "1")}

Reconfigure ==
    \E n \in 1..Len(MemoProjects), e \in MemoEnvironments :
        /\ target_config' = MemoProjects[n].target
        /\ build_config' = MemoProjects[n].build
        /\ gitignore' = MemoProjects[n].gitignore
        /\ environ' = e
        /\ <<target_config', build_config', gitignore', environ'>>
               # <<target_config, build_config, gitignore, environ>>
        /\ last' = [op |-> "reconfigure", args |-> <<n>>, out |-> Ret(None)]
        /\ UNCHANGED <<self, scopes, held>>

InitMemo ==
    /\ \E n \in 1..Len(MemoProjects) :
          /\ target_config = MemoProjects[n].target
          /\ build_config = MemoProjects[n].build
          /\ gitignore = MemoProjects[n].gitignore
    /\ environ \in MemoEnvironments
    /\ InitObject

NextMemo ==
    \/ IncludePathOf({PathTool})
    \/ IncludeSpec
    \/ ExcludeSpec
    \/ ArtifactSpec
    \/ OnlyPackages
    \/ DevModeDirs
    \/ ForceInclude
    \/ HookConfig
    \/ Reconfigure

SpecMemo == InitMemo /\ [][NextMemo]_vars

\* The package list, the source map and the hook table around overlay
\* scopes, further queries and changes of the switches of the environment.
DerivedProjects ==
    << Project(Table2("hooks", Dict(<< <<"custom", Dict(<<>>)>>, <<"gen", Off>> >>),
                      "packages", Strs(<<SrcPkg>>)),
               Table2("hooks", Dict(<< <<"vcs", Off>>, <<"custom", Off>> >>),
                      "sources", Strs(<< <<"src">> >>)),
               None),
       Project(Table2("packages", Strs(<< <<"tool">>, <<"src", "/", "pkg", "/">> >>),
                      "sources", Dict(<< << <<"build">>, Str(<<"out">>) >> >>)),
               Table1("hooks", Dict(<< <<"gen", Off>> >>)),
               None),
       Project(<<>>, <<>>, None) >>

DerivedEnvironments ==
    {<<>>, Table1(NO_HOOKS, "1"), Table1(HOOKS_ENABLE, "true"),
     Table1(HOOK_ENABLE_PREFIX \o "GEN", "1")}

\* os.environ is changed, by this process or another part of it
ChangeSwitches ==
    /\ environ' \in DerivedEnvironments \ {environ}
    /\ last' = [op |-> "environ", args |-> <<>>, out |-> Ret(None)]
    /\ UNCHANGED <<target_config, build_config, gitignore, self, scopes, held>>

InitDerived ==
    /\ \E n \in 1..Len(DerivedProjects) :
          /\ target_config = DerivedProjects[n].target
          /\ build_config = DerivedProjects[n].build
          /\ gitignore = DerivedProjects[n].gitignore
    /\ environ \in DerivedEnvironments
    /\ InitObject

NextDerived ==
    \/ Packages
    \/ Sources
    \/ HookConfig
    \/ GetDistributionPath
    \/ (scopes = <<>> /\ SetBuildData)
    \/ ExitBuildData
    \/ ChangeSwitches

SpecDerived == InitDerived /\ [][NextDerived]_vars

----------------------------------------------------------------------------
(* What the raw configuration says, read without the object *)

\* the value configured for a key: the target table's when it has the key,
\* else the global table's, else the default
Configured(key, default) ==
    IF key \in DOMAIN target_config THEN target_config[key]
    ELSE IF key \in DOMAIN build_config THEN build_config[key]
    ELSE default

IsStringList(v) ==
    /\ v.type = "list"
    /\ \A i \in 1..Len(v.val) : v.val[i].type = "str" /\ v.val[i].val # <<>>

IsTrue(v) == v.type = "bool" /\ v.val
IsFalse(v) == v.type = "bool" /\ ~v.val

MatchesDynamic(s, path) ==
    ~IsNone(s.build_artifact_spec) /\ match_file(s.build_artifact_spec[1], path)

\* the path matches the artifact patterns of the configuration
MatchesConfiguredArtifacts(path) ==
    /\ IsStringList(Configured("artifacts", List(<<>>)))
    /\ match_file(Values(Configured("artifacts", List(<<>>)).val), path)

----------------------------------------------------------------------------
(* C1 *)

\* the precedence of the inclusion decision, on the specs the object holds
\* after the call
Precedence(s, path, is_package) ==
    IF ~IsNone(s.build_artifact_spec) /\ match_file(s.build_artifact_spec[1], path)
    THEN TRUE
    ELSE IF ~IsNone(s.__artifact_spec) /\ match_file(s.__artifact_spec[1], path)
    THEN TRUE
    ELSE IF s.__only_packages = Some(TRUE) /\ ~is_package
    THEN FALSE
    ELSE /\ (IsNone(s.__include_spec) \/ match_file(s.__include_spec[1], path))
         /\ ~(~IsNone(s.__exclude_spec) /\ match_file(s.__exclude_spec[1], path))

\* C1: in every reachable state, for every path and is_package, a call of
\* include_path that returns, returns what the precedence gives: true on a
\* match of the dynamic artifact spec, else true on a match of the static
\* artifact spec, else false when only_packages and not is_package, else
\* whether the include spec (absent: everything) matches and the exclude
\* spec (absent: nothing) does not.
C1_IncludePathPrecedence ==
    \A path \in Paths, is_package \in BOOLEAN :
        Let(include_path(self, path, is_package), LAMBDA r :
            r.out.kind = "return" => r.out.val = Precedence(r.self, path, is_package))

\* include_path has returned true through the last rule: no artifact spec
\* matched, the include spec and the exclude spec were both consulted
C1_Witness ==
    /\ last.op = "include_path"
    /\ last.out.kind = "return" /\ last.out.val
    /\ ~IsNone(self.__include_spec) /\ ~IsNone(self.__exclude_spec)
    /\ ~IsNone(self.__artifact_spec)
    /\ ~match_file(self.__artifact_spec[1], last.args[1])
    /\ ~MatchesDynamic(self, last.args[1])
    /\ scopes # <<>>

----------------------------------------------------------------------------
(* C2 *)

\* C2: in every reachable state, a path that matches the dynamic artifact
\* spec of an open scope, or the artifact patterns of the configuration, is
\* included, whatever is_package, only-packages, include and exclude say.
C2_ArtifactBypass ==
    \A path \in Paths, is_package \in BOOLEAN :
        (MatchesDynamic(self, path) \/ MatchesConfiguredArtifacts(path))
            => SameOutcome(include_path(self, path, is_package).out, Ret(TRUE))

\* include_path has returned true for a non-package path that is a
\* configured artifact, is excluded and not included, under only-packages
C2_Witness ==
    /\ last.op = "include_path"
    /\ last.args[2] = FALSE
    /\ SameOutcome(last.out, Ret(TRUE))
    /\ MatchesConfiguredArtifacts(last.args[1])
    /\ ~MatchesDynamic(self, last.args[1])
    /\ IsTrue(Configured("only-packages", Bool(FALSE)))
    /\ path_is_excluded(self, last.args[1]).out = Ret(TRUE)
    /\ path_is_included(self, last.args[1]).out = Ret(FALSE)

----------------------------------------------------------------------------
(* C3 *)

\* C3 as stated: when only-packages is true, include_path(path, false)
\* returns false for every path.
C3_OnlyPackagesExcludesAll ==
    (/\ last.op = "include_path"
     /\ last.args[2] = FALSE
     /\ IsTrue(Configured("only-packages", Bool(FALSE))))
        => SameOutcome(last.out, Ret(FALSE))

\* C3 amended: when only-packages is true and the artifacts option is well
\* formed, include_path(path, false) returns false for every path that
\* matches neither the dynamic nor the static artifact spec, also when the
\* path matches the include spec.
C3_OnlyPackagesExcludesNonArtifacts ==
    \A path \in Paths :
        /\ IsTrue(Configured("only-packages", Bool(FALSE)))
        /\ IsStringList(Configured("artifacts", List(<<>>)))
        /\ ~MatchesDynamic(self, path)
        /\ ~MatchesConfiguredArtifacts(path)
        => SameOutcome(include_path(self, path, FALSE).out, Ret(FALSE))

\* include_path has returned false for a non-package path that the include
\* spec matches and the exclude spec does not
C3_Witness ==
    /\ last.op = "include_path"
    /\ last.args[2] = FALSE
    /\ SameOutcome(last.out, Ret(FALSE))
    /\ self.__only_packages = Some(TRUE)
    /\ path_is_included(self, last.args[1]).out = Ret(TRUE)
    /\ path_is_excluded(self, last.args[1]).out = Ret(FALSE)
    /\ SameOutcome(include_path(self, last.args[1], TRUE).out, Ret(TRUE))

----------------------------------------------------------------------------
(* C4 *)

\* a set_build_data scope has just ended: its block returned or raised, or
\* its entry failed
ScopeEnded ==
    \/ last.op = "set_build_data.exit"
    \/ last.op = "set_build_data" /\ last.out.kind = "raise"

\* C4: whenever a set_build_data scope has just ended, by its block
\* returning, by its block raising or by its entry failing, the dynamic
\* artifact spec is None and the force-include fragment is empty; and when
\* the scope was entered with no other scope open, include_path for every
\* path and get_force_include answer what they answered before the scope.
C4_OverlayIsolation ==
    ScopeEnded =>
        /\ IsNone(self.build_artifact_spec)
        /\ self.build_force_include = <<>>
        /\ last.args.outer = 0 => Answers(self) = last.args.before[1]

\* a scope whose block raised has ended; inside it a path was included only
\* through the dynamic artifact spec and get_force_include had the scope's
\* entry
C4_Witness ==
    /\ last.op = "set_build_data.exit"
    /\ last.out.kind = "raise"
    /\ last.args.outer = 0
    /\ scopes = <<>>
    /\ Let(set_build_data_enter(self, BuildDatas[last.args.build_data]).self, LAMBDA inside :
           /\ \E path \in Paths :
                 /\ SameOutcome(include_path(inside, path, TRUE).out, Ret(TRUE))
                 /\ SameOutcome(include_path(self, path, TRUE).out, Ret(FALSE))
           /\ get_force_include(inside).out.kind = "return"
           /\ get_force_include(inside).out.val # get_force_include(self).out.val)

----------------------------------------------------------------------------
(* C5 *)

\* the source at position i of a source map is a prefix of the path
SourceMatches(srcs, i, path) == StartsWith(path, srcs[i][1])

\* the path with its leading source cut off and the replacement put there,
\* for the first source of the map that matches; the path when none does
ExpectedDistributionPath(srcs, path) ==
    IF \E i \in 1..Len(srcs) : SourceMatches(srcs, i, path)
    THEN LET i == CHOOSE i \in 1..Len(srcs) :
                      /\ SourceMatches(srcs, i, path)
                      /\ \A j \in 1..(i - 1) : ~SourceMatches(srcs, j, path)
         IN srcs[i][2] \o SubSeq(path, Len(srcs[i][1]) + 1, Len(path))
    ELSE path

\* C5: when get_distribution_path(relative_path) has returned, the source
\* map is resolved, its keys ascend strictly, and the result is the path
\* with the first source of the map that is a prefix of it replaced, at the
\* front only, by the replacement mapped to that source; the result is the
\* path itself when no source is a prefix of it.
C5_FirstMatchingSource ==
    (last.op = "get_distribution_path" /\ last.out.kind = "return") =>
        /\ ~IsNone(self.__sources)
        /\ \A i, j \in 1..Len(self.__sources[1]) :
              i < j => StrLess(self.__sources[1][i][1], self.__sources[1][j][1])
        /\ last.out.val = ExpectedDistributionPath(self.__sources[1], last.args[1])

\* get_distribution_path has returned for a path that two sources with
\* different replacements are prefixes of, and the earlier one was used
C5_Witness ==
    /\ last.op = "get_distribution_path"
    /\ last.out.kind = "return"
    /\ \E i, j \in 1..Len(self.__sources[1]) :
          /\ i < j
          /\ SourceMatches(self.__sources[1], i, last.args[1])
          /\ SourceMatches(self.__sources[1], j, last.args[1])
          /\ self.__sources[1][i][2] # self.__sources[1][j][2]
          /\ last.out.val = self.__sources[1][i][2]
                 \o SubSeq(last.args[1], Len(self.__sources[1][i][1]) + 1, Len(last.args[1]))
          /\ last.out.val # last.args[1]

----------------------------------------------------------------------------
(* C6 *)

\* the source map the configuration spells out, directory to replacement
ExplicitMap ==
    Let(Configured("sources", List(<<>>)), LAMBDA raw :
        IF raw.type = "list" THEN ListSources(Values(raw.val)) ELSE DictSources(raw.val))

\* the directories holding a declared package
PackageParents ==
    {normalize_relative_directory(os_path_split(self.__packages[1][i])[1]) :
        i \in {j \in 1..Len(self.__packages[1]) :
                  os_path_split(self.__packages[1][j])[1] # <<>>}}

\* C6: when sources has returned, the resolved map holds every explicitly
\* configured source with the replacement configured for it, holds the
\* parent directory of every declared package that has one, and maps every
\* source that is not explicit to the empty replacement.
C6_ImplicitSourcesKeepExplicit ==
    (last.op = "sources" /\ last.out.kind = "return") =>
        /\ \A k \in DOMAIN ExplicitMap :
              HasKey(last.out.val, k) /\ Lookup(last.out.val, k) = ExplicitMap[k]
        /\ \A d \in PackageParents : HasKey(last.out.val, d)
        /\ \A i \in 1..Len(last.out.val) :
              last.out.val[i][1] \notin DOMAIN ExplicitMap => last.out.val[i][2] = <<>>

----------------------------------------------------------------------------
(* C7 *)

BooleanOptions ==
    {"ignore_vcs", "require_runtime_dependencies", "only_packages", "reproducible",
     "dev_mode_exact"}

Options == BooleanOptions \cup {"directory", "dev_mode_dirs", "versions", "dependencies"}

\* the key of the option a getter resolves
OptionKey(op) ==
    CASE op = "ignore_vcs" -> "ignore-vcs"
      [] op = "require_runtime_dependencies" -> "require-runtime-dependencies"
      [] op = "only_packages" -> "only-packages"
      [] op = "reproducible" -> "reproducible"
      [] op = "dev_mode_exact" -> "dev-mode-exact"
      [] op = "directory" -> "directory"
      [] op = "dev_mode_dirs" -> "dev-mode-dirs"
      [] op = "versions" -> "versions"
      [] op = "dependencies" -> "dependencies"

\* the default documented for the option
DocumentedDefault(op) ==
    CASE op = "reproducible" -> Bool(TRUE)
      [] op \in BooleanOptions \ {"reproducible"} -> Bool(FALSE)
      [] op = "directory" -> Str(<<"dist">>)
      [] op = "versions" -> Strs(default_versions)
      [] op \in {"dev_mode_dirs", "dependencies"} -> List(<<>>)

\* a configured value as a getter hands it out
Plain(v) == IF v.type = "list" THEN Values(v.val) ELSE v.val

\* the target's value, else the global one, else the default
TargetElseGlobalElseDefault(op) == Plain(Configured(OptionKey(op), DocumentedDefault(op)))

\* C7 as stated: each of the nine options resolves to the target-level
\* value when the target has the key, else to the global-level value, else
\* to the documented default.
C7_TargetElseGlobalElseDefault ==
    (last.op \in Options /\ last.out.kind = "return")
        => last.out.val = TargetElseGlobalElseDefault(last.op)

RECURSIVE Concat(_)
Concat(seqs) == IF seqs = <<>> THEN <<>> ELSE Head(seqs) \o Concat(Tail(seqs))

\* the hooks enabled under the configuration and the environment
EnabledHooks == hook_config(NewConfig).out.val

\* the dependencies of the amended claim: the target's, the global ones,
\* those of each enabled hook, and the project's runtime dependencies when
\* the option or an enabled hook requires them; first occurrences only
ExpectedDependencies ==
    OrderedSet(
        Plain(Get(target_config, "dependencies", List(<<>>)))
        \o Plain(Get(build_config, "dependencies", List(<<>>)))
        \o Concat([i \in 1..Len(EnabledHooks) |->
                      Plain(DictGet(EnabledHooks[i][2], "dependencies", List(<<>>)))])
        \o (IF \/ Configured("require-runtime-dependencies", Bool(FALSE)).val
               \/ \E i \in 1..Len(EnabledHooks) :
                      DictGet(EnabledHooks[i][2], "require-runtime-dependencies",
                              Bool(FALSE)).val
            THEN core_dependencies ELSE <<>>))

\* the versions of the amended claim: the target's, first occurrences only,
\* and the builder's defaults when the target names none
ExpectedVersions ==
    Let(Plain(Get(target_config, "versions", List(<<>>))), LAMBDA named :
        IF named = <<>> THEN default_versions ELSE OrderedSet(named))

\* C7 amended: ignore-vcs, require-runtime-dependencies, only-packages,
\* reproducible, dev-mode-exact and dev-mode-dirs resolve to the target-level
\* value when the target has the key, else to the global-level value, else
\* to the default; directory is chosen in the same way and then made
\* absolute under the project root and normalized; versions resolves to the
\* target-level list without repeats, or to the builder's default versions
\* when the target names none, whatever the global level says; dependencies
\* resolves to the target-level list, then the global-level list, then the
\* dependencies of the enabled hooks, then the project's runtime
\* dependencies when they are required, without repeats.
C7_OptionResolution ==
    (last.op \in Options /\ last.out.kind = "return") =>
        last.out.val =
            CASE last.op \in BooleanOptions \cup {"dev_mode_dirs"} ->
                     TargetElseGlobalElseDefault(last.op)
              [] last.op = "directory" ->
                     normalize_build_directory(TargetElseGlobalElseDefault("directory"))
              [] last.op = "versions" -> ExpectedVersions
              [] last.op = "dependencies" -> ExpectedDependencies

\* a boolean option set at both levels to different values has been
\* resolved to the target's
C7_Witness ==
    /\ last.op \in BooleanOptions
    /\ last.out.kind = "return"
    /\ OptionKey(last.op) \in DOMAIN target_config
    /\ OptionKey(last.op) \in DOMAIN build_config
    /\ target_config[OptionKey(last.op)] # build_config[OptionKey(last.op)]
    /\ last.out.val = target_config[OptionKey(last.op)].val
    /\ last.out.val # DocumentedDefault(last.op).val

----------------------------------------------------------------------------
(* C8 and C9 *)

\* a switch of the environment is active
Active(switch) == switch \in DOMAIN environ /\ environ[switch] \in {"1", "true"}

\* the hooks a level of the configuration declares
DeclaredHooks(table) == Get(table, "hooks", Dict(<<>>)).val

HookNames ==
    {DeclaredHooks(target_config)[i][1] : i \in 1..Len(DeclaredHooks(target_config))}
    \cup {DeclaredHooks(build_config)[i][1] : i \in 1..Len(DeclaredHooks(build_config))}

\* the option table of a hook: the target's when the target declares it
KeptTable(name) ==
    IF HasKey(DeclaredHooks(target_config), name)
    THEN Lookup(DeclaredHooks(target_config), name)
    ELSE Lookup(DeclaredHooks(build_config), name)

\* the enable-by-default option of a hook holds
EnabledByDefault(name) == Truthy(DictGet(KeptTable(name), "enable-by-default", Bool(TRUE)))

\* C8: when hook_config has returned, it is empty if the disable-all switch
\* is active; otherwise it holds exactly the declared hooks for which the
\* enable-all switch is active, or the hook's own switch is active, or the
\* hook's enable-by-default option, true when absent, holds.
C8_HookEnablement ==
    (last.op = "hook_config" /\ last.out.kind = "return") =>
        IF Active(NO_HOOKS) THEN last.out.val = <<>>
        ELSE /\ \A i \in 1..Len(last.out.val) : last.out.val[i][1] \in HookNames
             /\ \A name \in HookNames :
                   HasKey(last.out.val, name)
                       <=> \/ Active(HOOKS_ENABLE)
                           \/ Active(HOOK_ENABLE_PREFIX \o upper(name))
                           \/ EnabledByDefault(name)

\* with neither the disable-all nor the enable-all switch active,
\* hook_config has returned without a declared hook that is off by default
\* and with another, off by default too, that its own switch enables
C8_Witness ==
    /\ last.op = "hook_config"
    /\ last.out.kind = "return"
    /\ ~Active(NO_HOOKS) /\ ~Active(HOOKS_ENABLE)
    /\ \E name \in HookNames : ~HasKey(last.out.val, name) /\ ~EnabledByDefault(name)
    /\ \E name \in HookNames :
          /\ HasKey(last.out.val, name)
          /\ ~EnabledByDefault(name)
          /\ Active(HOOK_ENABLE_PREFIX \o upper(name))

\* the index of a key in a table
IndexOf(table, key) == CHOOSE i \in 1..Len(table) : table[i][1] = key

\* the place of a hook in the merged table: the target's hooks, then the
\* global ones
Position(name) ==
    IF HasKey(DeclaredHooks(target_config), name)
    THEN IndexOf(DeclaredHooks(target_config), name)
    ELSE Len(DeclaredHooks(target_config)) + IndexOf(DeclaredHooks(build_config), name)

\* C9: when hook_config has returned, its hooks stand in the order of the
\* merged table, target-level hooks in their order and then the global-level
\* hooks the target does not declare in theirs, each once, and each carries
\* the target-level option table when the target declares it and the
\* global-level one otherwise.
C9_HookOrder ==
    (last.op = "hook_config" /\ last.out.kind = "return") =>
        /\ \A i, j \in 1..Len(last.out.val) :
              i < j => Position(last.out.val[i][1]) < Position(last.out.val[j][1])
        /\ \A i \in 1..Len(last.out.val) :
              last.out.val[i][2] = KeptTable(last.out.val[i][1])

\* hook_config has returned a target-level hook before a global-level one,
\* and a hook declared at both levels with different option tables
C9_Witness ==
    /\ last.op = "hook_config"
    /\ last.out.kind = "return"
    /\ \E i, j \in 1..Len(last.out.val) :
          /\ i < j
          /\ HasKey(DeclaredHooks(target_config), last.out.val[i][1])
          /\ ~HasKey(DeclaredHooks(target_config), last.out.val[j][1])
    /\ \E i \in 1..Len(last.out.val) :
          /\ HasKey(DeclaredHooks(target_config), last.out.val[i][1])
          /\ HasKey(DeclaredHooks(build_config), last.out.val[i][1])
          /\ Lookup(DeclaredHooks(target_config), last.out.val[i][1])
                 # Lookup(DeclaredHooks(build_config), last.out.val[i][1])
    /\ Len(last.out.val) < Cardinality(HookNames)

----------------------------------------------------------------------------
(* C10 *)

\* the pattern list the claim gives for the exclude spec
ExpectedExcludePatterns ==
    << <<".git">>, <<"__pycache__">>, <<"*", ".py", "[cod]">> >>
    \o Values(Configured("exclude", List(<<>>)).val)
    \o (IF IsFalse(Configured("ignore-vcs", Bool(FALSE))) /\ ~IsNone(gitignore)
        THEN gitignore[1] ELSE <<>>)

\* C10: once the exclude spec is computed, it is compiled from exactly the
\* baseline, then the configured exclude patterns (the target's when the
\* target has the key, else the global ones), then the lines of the ignore
\* file when ignore-vcs is false and the file exists; and with well-formed
\* exclude and ignore-vcs options computing it never raises, ignore file or
\* not.
C10_ExcludePatternList ==
    /\ ~IsNone(self.__exclude_patterns) =>
          /\ self.__exclude_patterns[1] = ExpectedExcludePatterns
          /\ self.__exclude_spec = Some(ExpectedExcludePatterns)
    /\ (IsStringList(Configured("exclude", List(<<>>)))
        /\ Configured("ignore-vcs", Bool(FALSE)).type = "bool")
          => exclude_spec(self).out.kind = "return"

\* the exclude spec has been computed from target-level patterns that
\* shadow global ones, followed by the lines of the ignore file
C10_Witness ==
    /\ ~IsNone(self.__exclude_patterns)
    /\ "exclude" \in DOMAIN target_config /\ "exclude" \in DOMAIN build_config
    /\ target_config["exclude"] # build_config["exclude"]
    /\ ~IsNone(gitignore)
    /\ Len(self.__exclude_patterns[1]) = 3 + Len(target_config["exclude"].val) + Len(gitignore[1])

----------------------------------------------------------------------------
(* C11 *)

\* the version names the target-level configuration lists
NamedVersions == Plain(Get(target_config, "versions", List(<<>>)))

\* the names of a list that the builder's version API does not know
UnknownVersions == {NamedVersions[i] : i \in 1..Len(NamedVersions)} \ version_api

\* the place of the first occurrence of a name in a list
FirstIndex(list, name) ==
    CHOOSE i \in 1..Len(list) : list[i] = name /\ \A j \in 1..(i - 1) : list[j] # name

\* the sequence has no element twice and holds exactly the set
Enumerates(seq, set) ==
    /\ {seq[i] : i \in 1..Len(seq)} = set
    /\ \A i, j \in 1..Len(seq) : i # j => seq[i] # seq[j]

\* C11: when versions has been called on a target-level versions list of
\* non-empty strings, or with none configured: an empty or absent list
\* returns the builder's default versions; a list whose names the builder
\* all knows returns its names once each in the order of their first
\* occurrence; any other list raises a ValueError that lists the unknown
\* names once each in ascending order.
C11_VersionsResolution ==
    (last.op = "versions" /\ IsStringList(Get(target_config, "versions", List(<<>>)))) =>
        IF NamedVersions = <<>>
        THEN SameOutcome(last.out, Ret(default_versions))
        ELSE IF UnknownVersions = {}
        THEN /\ last.out.kind = "return"
             /\ Enumerates(last.out.val, {NamedVersions[i] : i \in 1..Len(NamedVersions)})
             /\ \A i, j \in 1..Len(last.out.val) :
                   i < j => FirstIndex(NamedVersions, last.out.val[i])
                                < FirstIndex(NamedVersions, last.out.val[j])
        ELSE /\ last.out.kind = "raise"
             /\ last.out.val[1] = "ValueError"
             /\ Enumerates(last.out.val[2][2], UnknownVersions)
             /\ \A i, j \in 1..Len(last.out.val[2][2]) :
                   i < j => StrLess(last.out.val[2][2][i], last.out.val[2][2][j])

\* versions has raised on a list of three names that has two unknown
\* versions, the greater one first
C11_Witness ==
    /\ last.op = "versions"
    /\ last.out.kind = "raise"
    /\ Len(NamedVersions) = 3
    /\ Cardinality(UnknownVersions) = 2
    /\ StrLess(NamedVersions[3], NamedVersions[1])
    /\ last.out.val[2][2] = <<NamedVersions[3], NamedVersions[1]>>

----------------------------------------------------------------------------
(* C12 *)

\* the accesses of an option or of a spec
Accesses ==
    {"include_spec", "exclude_spec", "artifact_spec", "packages", "ignore_vcs",
     "only_packages", "require_runtime_dependencies", "reproducible", "dev_mode_exact",
     "dev_mode_dirs", "directory", "versions", "dependencies", "hook_config", "sources",
     "force_include"}

\* the access made again on an object
Access(op, s) ==
    CASE op = "include_spec" -> include_spec(s)
      [] op = "exclude_spec" -> exclude_spec(s)
      [] op = "artifact_spec" -> artifact_spec(s)
      [] op = "packages" -> packages(s)
      [] op = "ignore_vcs" -> ignore_vcs(s)
      [] op = "only_packages" -> only_packages(s)
      [] op = "require_runtime_dependencies" -> require_runtime_dependencies(s)
      [] op = "reproducible" -> reproducible(s)
      [] op = "dev_mode_exact" -> dev_mode_exact(s)
      [] op = "dev_mode_dirs" -> dev_mode_dirs(s)
      [] op = "directory" -> directory(s)
      [] op = "versions" -> versions(s)
      [] op = "dependencies" -> dependencies(s)
      [] op = "hook_config" -> hook_config(s)
      [] op = "sources" -> sources(s)
      [] op = "force_include" -> force_include(s)

\* the fields in which an access stores what it resolved
MemoOf(op) ==
    CASE op = "include_spec" -> {"__include_spec", "__include_patterns"}
      [] op = "exclude_spec" -> {"__exclude_spec", "__exclude_patterns"}
      [] op = "artifact_spec" -> {"__artifact_spec", "__artifact_patterns"}
      [] OTHER -> {"__" \o op}

\* the field that tells an access has resolved its value
GuardOf(op) ==
    CASE op = "include_spec" -> "__include_patterns"
      [] op = "exclude_spec" -> "__exclude_patterns"
      [] op = "artifact_spec" -> "__artifact_patterns"
      [] OTHER -> "__" \o op

\* the list-of-strings option an access validates element by element, with
\* the noun of its messages; <<>> when it validates none
OwnList(op) ==
    CASE op = "include_spec" -> <<"include", "Pattern">>
      [] op = "exclude_spec" -> <<"exclude", "Pattern">>
      [] op = "artifact_spec" -> <<"artifacts", "Pattern">>
      [] op = "packages" -> <<"packages", "Package">>
      [] op = "dev_mode_dirs" -> <<"dev-mode-dirs", "Directory">>
      [] op = "versions" -> <<"versions", "Version">>
      [] op = "sources" -> <<"sources", "Source">>
      [] OTHER -> <<>>

\* the value an access reads for its own list, and the key path it came from
UsedList(op) ==
    IF op = "versions" THEN Get(target_config, "versions", List(<<>>))
    ELSE Configured(OwnList(op)[1], List(<<>>))

UsedKeyPath(op) ==
    IF op = "versions" \/ OwnList(op)[1] \in DOMAIN target_config
    THEN "tool.hatch.build.targets.wheel." \o OwnList(op)[1]
    ELSE "tool.hatch.build." \o OwnList(op)[1]

\* the elements of a list that are not non-empty strings
Offending(v) == {i \in 1..Len(v.val) : v.val[i].type # "str" \/ v.val[i].val = <<>>}

\* the error for the first offending element of the list an access reads
ElementError(op) ==
    LET v == UsedList(op)
        i == CHOOSE i \in Offending(v) : \A j \in Offending(v) : i <= j
    IN IF v.val[i].type # "str"
       THEN Raise("TypeError",
                  OwnList(op)[2] \o " #" \o ToString(i) \o " in field '" \o UsedKeyPath(op)
                      \o "' must be a string")
       ELSE Raise("ValueError",
                  OwnList(op)[2] \o " #" \o ToString(i) \o " in field '" \o UsedKeyPath(op)
                      \o "' cannot be an empty string")

WellFormedBool(key) == Configured(key, Bool(FALSE)).type = "bool"
WellFormedList(key) == IsStringList(Configured(key, List(<<>>)))

\* a table of hooks is a table of tables
WellFormedHooks(table) ==
    LET hooks == Get(table, "hooks", Dict(<<>>))
    IN hooks.type = "dict" /\ \A i \in 1..Len(hooks.val) : hooks.val[i][2].type = "dict"

\* a list of dependencies is a list of strings
WellFormedDependencies(v) ==
    v.type = "list" /\ \A i \in 1..Len(v.val) : v.val[i].type = "str"

\* the configuration holds, for the values an access reads, the shape the
\* access expects
WellFormed(op) ==
    CASE op = "include_spec" -> WellFormedList("include") /\ WellFormedList("packages")
      [] op = "exclude_spec" -> WellFormedList("exclude") /\ WellFormedBool("ignore-vcs")
      [] op = "artifact_spec" -> WellFormedList("artifacts")
      [] op = "packages" -> WellFormedList("packages")
      [] op = "dev_mode_dirs" -> WellFormedList("dev-mode-dirs")
      [] op \in BooleanOptions -> WellFormedBool(OptionKey(op))
      [] op = "directory" -> Configured("directory", Str(<<"dist">>)).type = "str"
      [] op = "versions" ->
             /\ IsStringList(Get(target_config, "versions", List(<<>>)))
             /\ UnknownVersions = {}
      [] op = "hook_config" -> WellFormedHooks(target_config) /\ WellFormedHooks(build_config)
      [] op = "dependencies" ->
             /\ WellFormedDependencies(Get(target_config, "dependencies", List(<<>>)))
             /\ WellFormedDependencies(Get(build_config, "dependencies", List(<<>>)))
             /\ WellFormedBool("require-runtime-dependencies")
             /\ WellFormedHooks(target_config) /\ WellFormedHooks(build_config)
             /\ \A i \in 1..Len(EnabledHooks) :
                   /\ DictGet(EnabledHooks[i][2], "require-runtime-dependencies",
                              Bool(FALSE)).type = "bool"
                   /\ WellFormedDependencies(
                          DictGet(EnabledHooks[i][2], "dependencies", List(<<>>)))
      [] op = "sources" ->
             /\ LET raw == Configured("sources", List(<<>>))
                IN \/ IsStringList(raw)
                   \/ /\ raw.type = "dict"
                      /\ \A i \in 1..Len(raw.val) :
                            raw.val[i][1] # <<>> /\ raw.val[i][2].type = "str"
             /\ WellFormedList("packages")
      [] op = "force_include" ->
             LET raw == Configured("force-include", Dict(<<>>))
             IN /\ raw.type = "dict"
                /\ \A i \in 1..Len(raw.val) :
                      /\ raw.val[i][1] # <<>>
                      /\ raw.val[i][2].type = "str"
                      /\ raw.val[i][2].val # <<>>

\* C12: the object is constructed, with nothing resolved, whatever the raw
\* configuration holds.  An access raises exactly when the values it reads
\* are not well formed; when the list it reads has an offending element the
\* error names the 1-based index of the first one and the key path of the
\* level the list was taken from.  An access that raised has stored nothing
\* for its option, and made again it raises the same error and stores
\* nothing.  A stored value is always the whole value: the one a fresh
\* access computes on a well-formed option.
C12_ErrorsAtAccessOnly ==
    /\ last.op = "__init__" => self = NewConfig /\ last.out = Ret(None)
    /\ last.op \in Accesses =>
          /\ last.out.kind = "raise" <=> ~WellFormed(last.op)
          /\ last.out.kind = "raise" =>
                /\ \A f \in MemoOf(last.op) : IsNone(self[f])
                /\ Access(last.op, self) = [self |-> self, out |-> last.out]
          /\ (/\ OwnList(last.op) # <<>>
              /\ UsedList(last.op).type = "list"
              /\ Offending(UsedList(last.op)) # {})
                => last.out = ElementError(last.op)
    /\ \A op \in Accesses :
          ~IsNone(self[GuardOf(op)]) =>
              /\ WellFormed(op)
              /\ Access(op, self).out = Access(op, NewConfig).out
              /\ Access(op, self).self = self

\* an access has raised on a list taken from the global level whose first
\* offending element stands behind a valid one and before another offending
\* one, after another option was resolved
C12_Witness ==
    /\ last.op \in Accesses
    /\ last.out.kind = "raise"
    /\ OwnList(last.op) # <<>>
    /\ OwnList(last.op)[1] \notin DOMAIN target_config
    /\ UsedList(last.op).type = "list"
    /\ Cardinality(Offending(UsedList(last.op))) = 2
    /\ 1 \notin Offending(UsedList(last.op))
    /\ self # NewConfig

----------------------------------------------------------------------------
(* C13 *)

\* the build data of the open scope
ScopeData == BuildDatas[scopes[1].build_data]

\* a force-include source made absolute under the project root
AbsoluteSource(path) ==
    IF path # <<>> /\ path[1] = "/" THEN RStrip(path, "/")
    ELSE root \o <<"/">> \o Strip(path, "/")

\* the fragment holds the entries of the scope, normalized, and no other
HoldsExactly(fragment, entries) ==
    /\ DOMAIN fragment = {AbsoluteSource(entries[i][1]) : i \in 1..Len(entries)}
    /\ \A i \in 1..Len(entries) :
          fragment[AbsoluteSource(entries[i][1])] = Strip(entries[i][2], "/")

----------------------------------------------------------------------------
(* C14 *)

\* what an access that has resolved its value holds for it
Cached(op, s) ==
    IF op \in {"include_spec", "exclude_spec", "artifact_spec"} THEN s["__" \o op]
    ELSE s[GuardOf(op)][1]

\* a step leaves every resolved value as it is, and a step that is an
\* access of a resolved value returns that value and changes nothing
MemoizedStep ==
    /\ \A op \in Accesses :
          ~IsNone(self[GuardOf(op)]) => \A f \in MemoOf(op) : self'[f] = self[f]
    /\ (last'.op \in Accesses /\ ~IsNone(self[GuardOf(last'.op)])) =>
          /\ last'.out = Ret(Cached(last'.op, self))
          /\ self' = self

\* C14: over any sequence of include_path calls and accesses, while the
\* caller's tables, the ignore file and the environment are replaced at
\* will, a spec or option that has been resolved is never resolved again:
\* no step changes it and every later access returns the stored value and
\* stores nothing, also when the stored value is the absent spec, an empty
\* list or mapping, or false.  The ignore file is read only while the
\* exclude patterns are resolved, hence at most once.
C14_Memoization == [][MemoizedStep]_vars

\* include_spec has returned the stored absent spec under a configuration
\* that would give a spec, with false, an empty list and an empty mapping
\* stored for other options and exclude patterns stored that the ignore
\* file of the moment would not give
C14_Witness ==
    /\ last.op = "include_spec"
    /\ last.out = Ret(None)
    /\ self.__include_patterns = Some(<<>>)
    /\ include_spec(NewConfig).out # last.out
    /\ self.__only_packages = Some(FALSE)
    /\ self.__dev_mode_dirs = Some(<<>>)
    /\ self.__force_include = Some(<<>>)
    /\ ~IsNone(self.__exclude_patterns)
    /\ exclude_spec(NewConfig).out # Ret(self.__exclude_spec)

----------------------------------------------------------------------------
(* C15 *)

Derived == {"packages", "sources", "hook_config"}

\* what a second object built from the same tables answers now
Rebuilt(op) == Access(op, NewConfig).out

\* C15 as stated: the package list, the source map and the hook table an
\* object has computed are those any object built from the same global and
\* target tables computes.
C15_FunctionOfRawConfig ==
    \A op \in Derived : ~IsNone(self[GuardOf(op)]) => Rebuilt(op) = Ret(Cached(op, self))

\* no step changes a computed package list, source map or hook table, an
\* access of a computed one returns it, and the hook table is computed from
\* the tables and the switches of the environment of that moment
DerivedStep ==
    /\ \A op \in Derived :
          ~IsNone(self[GuardOf(op)]) =>
              /\ self'[GuardOf(op)] = self[GuardOf(op)]
              /\ last'.op = op => last'.out = Ret(Cached(op, self))
    /\ (IsNone(self.__hook_config) /\ ~IsNone(self'.__hook_config)) =>
          Rebuilt("hook_config") = Ret(Cached("hook_config", self'))

\* C15 amended: the package list and the source map are functions of the
\* global and target tables alone: what an object has computed is what any
\* object built from the same tables computes.  The hook table is a
\* function of the tables and of the hook switches of the environment at
\* its first access.  Once computed, none of the three changes: not by
\* entering or leaving an overlay scope, not by a later change of the
\* switches, not by further queries.
C15_DerivedOnceAndForAll ==
    /\ [](\A op \in {"packages", "sources"} :
             ~IsNone(self[GuardOf(op)]) => Rebuilt(op) = Ret(Cached(op, self)))
    /\ [][DerivedStep]_vars

\* inside an overlay scope hook_config has returned a computed table that
\* the switches of the moment would not give, with the package list and
\* the source map computed
C15_Witness ==
    /\ last.op = "hook_config"
    /\ last.out.kind = "return"
    /\ Rebuilt("hook_config") # last.out
    /\ last.out.val # <<>>
    /\ scopes # <<>>
    /\ ~IsNone(self.__packages)
    /\ ~IsNone(self.__sources)
    /\ self.__sources[1] # <<>>

----------------------------------------------------------------------------
(* C16 *)

\* the memoized force-include map overridden by the fragment
Overridden(static, fragment) ==
    [k \in DOMAIN static \cup DOMAIN fragment |->
        IF k \in DOMAIN fragment THEN fragment[k] ELSE static[k]]

\* C16: get_force_include returns the memoized force-include map overridden
\* by the fragment, the fragment's destination winning on a common source;
\* the mapping it hands out is a new one, neither the memoized map nor the
\* fragment, and holds what it was returned with through every later step,
\* the exit of the scope it was returned in included; and no step, whether
\* get_force_include or entering or leaving a scope, changes the memoized
\* map once it is computed.
C16_ForceIncludeFrame ==
    /\ []((last.op = "get_force_include" /\ last.out.kind = "return") =>
             /\ ~IsNone(self.__force_include)
             /\ last.out.val = Overridden(self.__force_include[1], self.build_force_include))
    /\ [](~IsNone(held) =>
             /\ held[1].object \notin {"static", "fragment"}
             /\ Contents(self, held[1]) = held[1].contents)
    /\ [][~IsNone(self.__force_include) => self'.__force_include = self.__force_include]_vars

\* outside every scope the caller holds a mapping, returned inside a scope,
\* in which the fragment overrode a destination of the memoized map
C16_Witness ==
    /\ scopes = <<>>
    /\ last.op = "set_build_data.exit"
    /\ ~IsNone(held)
    /\ ~IsNone(self.__force_include)
    /\ \E k \in DOMAIN self.__force_include[1] :
          /\ k \in DOMAIN held[1].contents
          /\ held[1].contents[k] # self.__force_include[1][k]
    /\ self.build_force_include = <<>>

----------------------------------------------------------------------------
(* C17 *)

\* the dynamic artifact spec a scope's build data installs
ScopeSpec(data) ==
    IF data["artifacts"] = <<>> THEN None ELSE Some(from_lines(data["artifacts"]))

\* the object holds the contribution of one scope and nothing else
Installed(s, data) ==
    /\ s.build_artifact_spec = ScopeSpec(data)
    /\ HoldsExactly(s.build_force_include, data["force-include"])

\* the fragment holds the entries of two scopes, the second's destination
\* on a source both name, and no other
HoldsMerge(fragment, first, second) ==
    LET named(entries) == {AbsoluteSource(entries[i][1]) : i \in 1..Len(entries)}
    IN /\ DOMAIN fragment = named(first) \cup named(second)
       /\ \A i \in 1..Len(second) :
             fragment[AbsoluteSource(second[i][1])] = Strip(second[i][2], "/")
       /\ \A i \in 1..Len(first) :
             AbsoluteSource(first[i][1]) \notin named(second) =>
                 fragment[AbsoluteSource(first[i][1])] = Strip(first[i][2], "/")

\* a second scope is entered while the first is open with its contribution
\* installed: the fragment becomes the merge of the two contributions, and
\* the artifact spec is the second's, or stays the first's when the second
\* has no artifacts
SecondEntry ==
    LET first == BuildDatas[scopes[1].build_data]
        second == BuildDatas[scopes'[2].build_data]
    IN (Len(scopes) = 1 /\ Len(scopes') = 2 /\ Installed(self, first)) =>
           /\ HoldsMerge(self'.build_force_include,
                         first["force-include"], second["force-include"])
           /\ self'.build_artifact_spec =
                  IF second["artifacts"] = <<>> THEN ScopeSpec(first)
                  ELSE ScopeSpec(second)

\* a scope that still contributes something to the object
Contributes(data) == data["artifacts"] # <<>> \/ data["force-include"] # <<>>

\* C17: scopes that overlap on one object are not isolated. When a second
\* scope is entered while the first is open and installed, the fragment
\* holds the merge of both contributions, and a second scope with an empty
\* artifacts list leaves the first's artifact spec installed. The exit of
\* any scope, whichever scopes remain open, leaves the dynamic artifact spec
\* None and the fragment empty, so that a scope still open that contributed
\* something no longer finds its contribution installed.
C17_OverlappingScopes ==
    /\ [][SecondEntry]_vars
    /\ [](last.op = "set_build_data.exit" =>
             /\ IsNone(self.build_artifact_spec)
             /\ self.build_force_include = <<>>
             /\ \A i \in 1..Len(scopes) :
                   Contributes(BuildDatas[scopes[i].build_data]) =>
                       ~Installed(self, BuildDatas[scopes[i].build_data]))

\* one of two overlapping scopes has exited and the other, which contributed
\* an artifact pattern and an entry, is still open over an object that holds
\* neither; the caller holds the mapping it got while both were open, in
\* which the entries of both scopes are merged
C17_Witness ==
    /\ last.op = "set_build_data.exit"
    /\ Len(scopes) = 1
    /\ BuildDatas[scopes[1].build_data]["artifacts"] # <<>>
    /\ BuildDatas[scopes[1].build_data]["force-include"] # <<>>
    /\ IsNone(self.build_artifact_spec)
    /\ self.build_force_include = <<>>
    /\ ~IsNone(self.__force_include)
    /\ self.__force_include[1] = <<>>
    /\ ~IsNone(held)
    /\ Cardinality(DOMAIN held[1].contents) = 2

\* the second of two overlapping scopes, one without artifacts, has been
\* entered: the first's artifact spec is installed with both scopes' entries
C17_SecondEntered ==
    /\ last.op = "set_build_data"
    /\ last.out.kind = "return"
    /\ Len(scopes) = 2
    /\ BuildDatas[scopes[2].build_data]["artifacts"] = <<>>
    /\ self.build_artifact_spec = ScopeSpec(BuildDatas[scopes[1].build_data])
    /\ ~IsNone(self.build_artifact_spec)
    /\ Cardinality(DOMAIN self.build_force_include) = 2

====
